---- MODULE Spec2Model ----
(***************************************************************************)
(* Model of src/src/enhanced_parse_transcripts.py: the text normalizer,    *)
(* the numeric/unit normalizer, the spoken-number decoder, the metric      *)
(* matchers (each regular expression of the source is written as a syntax  *)
(* tree and matched with the priorities of Python's re), the sentence      *)
(* classifiers and extract_metrics.                                        *)
(*                                                                         *)
(* Texts are strings.  A Python float is modelled as an exact decimal      *)
(* [m, e] (value m * 10^e, m not divisible by 10).                         *)
(***************************************************************************)
EXTENDS Integers, Sequences, FiniteSets, TLC

VARIABLES
    text,         \* the document text handed to the function under study
    num_str,      \* normalize_number's first argument
    unit,         \* normalize_number's second argument ("" stands for None)
    roundTiesUp,  \* how round(x, 3) breaks an exact decimal tie: the binary
                  \* float nearest to x lies above (TRUE) or below (FALSE)
    pc,           \* position of the run: "call" before, "done" after
    results,      \* extract_metrics' dictionary before remove_null_metrics
    ret,          \* what the function returned
    file_name,    \* the name of the transcript file of text
    batch,        \* the files INPUT_DIR.glob yields, in its order
    parsed_results, \* main's list of records so far
    output        \* what main has written to OUTPUT_FILE

vars == <<text, num_str, unit, roundTiesUp, pc, results, ret,
          file_name, batch, parsed_results, output>>

\* the variables of main's run over the input directory
mainVars == <<batch, parsed_results, output>>

\* no run of main: no files, no records, nothing written
NoBatch == batch = <<>> /\ parsed_results = <<>> /\ output = <<>>

-----------------------------------------------------------------------------
(* Characters and strings *)

Chars(str) == [i \in 1..Len(str) |-> SubSeq(str, i, i)]

\* the concatenation of a sequence of strings (halving, to keep the
\* evaluation shallow)
RECURSIVE StrOf(_)
StrOf(cs) ==
    IF Len(cs) = 0 THEN ""
    ELSE IF Len(cs) = 1 THEN cs[1]
    ELSE LET h == Len(cs) \div 2
         IN  StrOf(SubSeq(cs, 1, h)) \o StrOf(SubSeq(cs, h + 1, Len(cs)))

UpperAlphabet == "ABCDEFGHIJKLMNOPQRSTUVWXYZ"
LowerAlphabet == "abcdefghijklmnopqrstuvwxyz"
DigitAlphabet == "0123456789"

UpperSet == {SubSeq(UpperAlphabet, i, i) : i \in 1..26}
LowerSet == {SubSeq(LowerAlphabet, i, i) : i \in 1..26}
DigitSet == {SubSeq(DigitAlphabet, i, i) : i \in 1..10}

LowerOf == [c \in UpperSet |->
              LET i == CHOOSE j \in 1..26 : SubSeq(UpperAlphabet, j, j) = c
              IN  SubSeq(LowerAlphabet, i, i)]

\* str.lower() on one character
LowerChar(c) == IF c \in UpperSet THEN LowerOf[c] ELSE c

\* str.lower()
LowerStr(str) == StrOf([i \in 1..Len(str) |-> LowerChar(SubSeq(str, i, i))])

DigitVal == [c \in DigitSet |->
              (CHOOSE j \in 1..10 : SubSeq(DigitAlphabet, j, j) = c) - 1]

\* \s, \d, \w of Python's re on ASCII text
SpaceSet == {" ", "\t", "\n", "\r", "\f"}
WordSet  == UpperSet \cup LowerSet \cup DigitSet \cup {"_"}

\* the characters of cs that are not in drop, in order (str.replace(c, ""))
Without(cs, drop) == SelectSeq(cs, LAMBDA c : c \notin drop)

\* str.strip() on a character sequence
StripChars(cs) ==
    LET solid == {i \in 1..Len(cs) : cs[i] \notin SpaceSet}
    IN  IF solid = {} THEN <<>>
        ELSE SubSeq(cs, CHOOSE i \in solid : \A j \in solid : i <= j,
                        CHOOSE i \in solid : \A j \in solid : i >= j)

\* str.strip()
Strip(str) == StrOf(StripChars(Chars(str)))

\* re.sub(r'\s+', ' ', ...): each whitespace run becomes one space
CollapseSpace(cs) ==
    [i \in 1..Len(cs) |->
        IF cs[i] \notin SpaceSet THEN cs[i]
        ELSE IF i > 1 /\ cs[i - 1] \in SpaceSet THEN "" ELSE " "]

\* clean_text without its final strip()
clean_text_unstripped(t) ==
    LET nl == [i \in 1..Len(t) |->
                 IF SubSeq(t, i, i) = "\n" THEN " " ELSE SubSeq(t, i, i)]
    IN  StrOf(CollapseSpace(nl))

\* clean_text: newlines to spaces, whitespace runs to one space, strip
clean_text(t) ==
    LET nl == [i \in 1..Len(t) |->
                 IF SubSeq(t, i, i) = "\n" THEN " " ELSE SubSeq(t, i, i)]
    IN  Strip(StrOf(CollapseSpace(nl)))

-----------------------------------------------------------------------------
(* Floats as exact decimals *)

None  == [tag |-> "none",  m |-> 0, e |-> 0]
Raise == [tag |-> "raise", m |-> 0, e |-> 0]

RECURSIVE Pow10(_)
Pow10(k) == IF k = 0 THEN 1 ELSE 10 * Pow10(k - 1)

RECURSIVE Canon(_, _)
Canon(m, e) ==
    IF m = 0 THEN [tag |-> "val", m |-> 0, e |-> 0]
    ELSE IF m % 10 = 0 THEN Canon(m \div 10, e + 1)
    ELSE [tag |-> "val", m |-> m, e |-> e]

RECURSIVE NumDigits(_)
NumDigits(m) == IF m < 10 THEN 1 ELSE 1 + NumDigits(m \div 10)

Abs(x) == IF x < 0 THEN -x ELSE x

\* x with its sign kept
SameSign(d) == d

\* -x
Neg(d) == [d EXCEPT !.m = -d.m]

\* abs(x)
AbsDec(d) == [d EXCEPT !.m = Abs(d.m)]

\* x * 10^k  (k may be negative: x / 10^-k); exact in decimal
Scale10(d, k) == Canon(d.m, d.e + k)

\* x >= 10^k for x >= 0
AtLeastPow10(d, k) == d.m > 0 /\ NumDigits(d.m) - 1 + d.e >= k

\* an integer as a decimal
DecOfInt(n) == Canon(n, 0)

\* the decimal's value in thousandths, when it has at most three decimals
Thousandths(d) == d.m * Pow10(d.e + 3)

\* round(x, 3): the nearest multiple of 0.001; an exact decimal tie goes the
\* way the binary float lies, which the decimal value does not determine
Round3(d) ==
    IF d.e >= -3 THEN d
    ELSE LET k   == -3 - d.e
             a   == Abs(d.m)
             sg  == IF d.m < 0 THEN -1 ELSE 1
         IN  IF NumDigits(a) < k THEN Canon(0, 0)   \* below 10^(k-1): rounds to 0
             ELSE LET p == Pow10(k)
                      q == a \div p
                      r == a % p
                      up == \/ r > p - r
                            \/ r = p - r /\ roundTiesUp
                  IN  Canon(sg * (IF up THEN q + 1 ELSE q), -3)

\* the digits of cs from the right with the trailing zeros dropped:
\* <<digits kept, zeros dropped>>
RECURSIVE DropTrailingZeros(_, _)
DropTrailingZeros(cs, n) ==
    IF Len(cs) > 0 /\ cs[Len(cs)] = "0"
    THEN DropTrailingZeros(SubSeq(cs, 1, Len(cs) - 1), n + 1)
    ELSE <<cs, n>>

RECURSIVE IntOfDigits(_, _)
IntOfDigits(cs, acc) ==
    IF Len(cs) = 0 THEN acc
    ELSE IntOfDigits(Tail(cs), 10 * acc + DigitVal[Head(cs)])

\* float(s) for s over digits, '.', '-': None stands for ValueError
ParseFloat(str) ==
    LET cs0  == Chars(str)
        neg  == Len(cs0) > 0 /\ cs0[1] = "-"
        cs   == IF neg THEN Tail(cs0) ELSE cs0
        dots == {i \in 1..Len(cs) : cs[i] = "."}
        ds   == Without(cs, {"."})
        wellFormed == /\ Cardinality(dots) <= 1
                      /\ Len(ds) >= 1
                      /\ \A i \in 1..Len(ds) : ds[i] \in DigitSet
    IN  IF ~wellFormed THEN None
        ELSE LET frac == IF dots = {} THEN 0
                         ELSE Len(cs) - (CHOOSE i \in dots : TRUE)
                 dz   == DropTrailingZeros(ds, 0)
                 mant == IntOfDigits(dz[1], 0)
             IN  Canon(IF neg THEN -mant ELSE mant, dz[2] - frac)

-----------------------------------------------------------------------------
(* normalize_number *)

\* normalize_number with the raw-count threshold exclusive (> 1,000,000)
normalize_number_strict(n_str, u_str) ==
    LET num == ParseFloat(StrOf(Without(Chars(n_str), {",", "$"})))
        u   == Strip(LowerStr(u_str))
    IN  IF num = None THEN None
        ELSE IF u \in {"billion", "bn", "b"} THEN Round3(Scale10(num, 3))
        ELSE IF u \in {"million", "mn", "mm", "m"} THEN Round3(num)
        ELSE IF u \in {"thousand", "k"} THEN Round3(Scale10(num, -3))
        ELSE IF AtLeastPow10(num, 6) /\ num # Canon(1, 6) THEN Round3(Scale10(num, -6))
        ELSE Round3(num)

normalize_number(n_str, u_str) ==
    LET num == ParseFloat(StrOf(Without(Chars(n_str), {",", "$"})))
        u   == Strip(LowerStr(u_str))
    IN  IF num = None THEN None
        ELSE IF u \in {"billion", "bn", "b"} THEN Round3(Scale10(num, 3))
        ELSE IF u \in {"million", "mn", "mm", "m"} THEN Round3(num)
        ELSE IF u \in {"thousand", "k"} THEN Round3(Scale10(num, -3))
        ELSE IF AtLeastPow10(num, 6) THEN Round3(Scale10(num, -6))
        ELSE Round3(num)

-----------------------------------------------------------------------------
(* Regular expressions: syntax trees and the match Python's re finds *)

Lit(str)        == [t |-> "lit", s |-> Chars(str)]
Set(cs)         == [t |-> "set", cs |-> cs]
AnyChar         == [t |-> "any"]
WB              == [t |-> "wb"]
BOL             == [t |-> "bol"]
EOL             == [t |-> "eol"]
Cat(xs)         == [t |-> "seq", xs |-> xs]
Alt(xs)         == [t |-> "alt", xs |-> xs]
Rep(x, lo, hi)  == [t |-> "rep", x |-> x, lo |-> lo, hi |-> hi, lazy |-> FALSE]
RepLazy(x, lo, hi) == [t |-> "rep", x |-> x, lo |-> lo, hi |-> hi, lazy |-> TRUE]
Opt(x)          == Rep(x, 0, 1)
\* hi = -1: no upper limit
Star(x)         == Rep(x, 0, -1)
Plus(x)         == Rep(x, 1, -1)
Grp(n, x)       == [t |-> "grp", n |-> n, x |-> x]
\* (?:a|b|c) over literal words
Words(ws)       == Alt([i \in 1..Len(ws) |-> Lit(ws[i])])

S   == Set(SpaceSet)
D   == Set(DigitSet)
Wd  == Set(WordSet)

NoMatch == [ok |-> FALSE, from |-> 0, to |-> 0, caps |-> <<>>]
NoCaps  == [n \in 1..3 |-> <<0, 0>>]

\* one character against another / against a class, under re.IGNORECASE or not
SameChar(c, l, ic) == c = l \/ (ic /\ LowerChar(c) = LowerChar(l))
InClass(c, cs, ic) ==
    \/ c \in cs
    \/ ic /\ LowerChar(c) \in cs
    \/ ic /\ c \in LowerSet /\ \E u \in cs \cap UpperSet : LowerOf[u] = c

IsWordAt(s, i) == i >= 1 /\ i <= Len(s) /\ s[i] \in WordSet

LitAt(l, s, i, ic) ==
    /\ i + Len(l) - 1 <= Len(s)
    /\ \A j \in 1..Len(l) : SameChar(s[i + j - 1], l[j], ic)

Max(a, b) == IF a > b THEN a ELSE b

\* does the single-character item x match s[i]
CharOK(x, s, i, ic) ==
    /\ i <= Len(s)
    /\ IF x.t = "any" THEN s[i] # "\n" ELSE InClass(s[i], x.cs, ic)

Min(a, b) == IF a < b THEN a ELSE b

\* the positions of s, the one after its last character included
Positions(s) == 1..(Len(s) + 1)

SetMin(ns) == CHOOSE n \in ns : \A m \in ns : n <= m
SetMax(ns) == CHOOSE n \in ns : \A m \in ns : n >= m

\* the number of characters from s[i] on that match the single-character
\* item x, at most hi (hi = -1: no limit)
RunLen(x, s, i, hi, ic) ==
    LET room  == Max(0, Len(s) - i + 1)
        limit == IF hi = -1 THEN room ELSE Min(hi, room)
    IN  CHOOSE n \in 0..limit :
            /\ \A j \in 0..(n - 1) : CharOK(x, s, i + j, ic)
            /\ n = limit \/ ~CharOK(x, s, i + n, ic)

\* the number of characters before s[j] that match the single-character
\* item x, at most hi (hi = -1: no limit)
BackLen(x, s, j, hi, ic) ==
    LET limit == IF hi = -1 THEN j - 1 ELSE Min(hi, j - 1)
    IN  CHOOSE n \in 0..limit :
            /\ \A d \in 1..n : CharOK(x, s, j - d, ic)
            /\ n = limit \/ ~CharOK(x, s, j - n - 1, ic)

\* Start(x, s, G, ic): the positions of s from which the item x matches a
\* stretch that ends at a position of G. With G the positions from which
\* the rest of a pattern matches, these are the positions from which x
\* followed by that rest matches. (The patterns have no backreference, so
\* whether the rest matches depends on the position alone.)
RECURSIVE Start(_, _, _, _), StartSeq(_, _, _, _, _, _), StartRep(_, _, _, _, _, _)
RECURSIVE StartStar(_, _, _, _, _)
Start(x, s, G, ic) ==
    IF G = {} THEN {}
    ELSE
    CASE x.t = "lit" ->
           {i \in {j - Len(x.s) : j \in G} : i >= 1 /\ LitAt(x.s, s, i, ic)}
      [] x.t \in {"set", "any"} ->
           {i \in {j - 1 : j \in G} : i >= 1 /\ CharOK(x, s, i, ic)}
      [] x.t = "wb" -> {i \in G : IsWordAt(s, i - 1) # IsWordAt(s, i)}
      [] x.t = "bol" -> {i \in G : i = 1}
      [] x.t = "eol" ->
           {i \in G : i = Len(s) + 1 \/ (i = Len(s) /\ s[i] = "\n")}
      [] x.t = "seq" ->
           \* nowhere to start when a literal of the sequence occurs nowhere
           IF \E a \in 1..Len(x.xs) :
                  /\ x.xs[a].t = "lit" \/ (x.xs[a].t = "grp" /\ x.xs[a].x.t = "lit")
                  /\ Start(x.xs[a], s, Positions(s), ic) = {}
           THEN {}
           ELSE StartSeq(x.xs, 1, Len(x.xs), s, G, ic)
      [] x.t = "alt" ->
           LET each == {Start(x.xs[a], s, G, ic) : a \in 1..Len(x.xs)}
           IN  {i \in Positions(s) : \E e \in each : i \in e}
      [] x.t = "rep" /\ x.x.t \in {"set", "any"} ->
           LET runs == {<<j, BackLen(x.x, s, j, x.hi, ic)>> : j \in G}
           IN  {i \in Positions(s) : \E r \in runs : (r[1] - i) \in x.lo..r[2]}
      [] x.t = "rep" /\ x.x.t \notin {"set", "any"} ->
           StartRep(x.x, x.lo, x.hi, s, G, ic)
      [] x.t = "grp" -> Start(x.x, s, G, ic)

\* the items xs[a..b] of a sequence, the later half first (by halves, to
\* keep the evaluation shallow)
StartSeq(xs, a, b, s, G, ic) ==
    IF a > b THEN G
    ELSE IF a = b THEN Start(xs[a], s, G, ic)
    ELSE LET later == StartSeq(xs, (a + b) \div 2 + 1, b, s, G, ic)
         IN  IF later = {} THEN {}
             ELSE StartSeq(xs, a, (a + b) \div 2, s, later, ic)

\* x* : the least set that holds G and the starts of x that end in it
StartStar(x, s, G, cur, ic) ==
    LET more == Start(x, s, cur, ic)
        nxt  == {i \in Positions(s) : i \in G \/ i \in more}
    IN  IF nxt = cur THEN cur ELSE StartStar(x, s, G, nxt, ic)

\* x{lo,hi}: one x that ends where x{lo-1,hi-1} starts, or, for lo = 0, none
StartRep(x, lo, hi, s, G, ic) ==
    IF hi = 0 THEN G
    ELSE IF hi = -1 /\ lo = 0 THEN StartStar(x, s, G, G, ic)
    ELSE LET after == StartRep(x, Max(0, lo - 1), IF hi = -1 THEN -1 ELSE hi - 1,
                               s, G, ic)
         IN  IF after = {} THEN (IF lo > 0 THEN {} ELSE G)
             ELSE IF lo > 0 THEN Start(x, s, after, ic)
             ELSE LET more == Start(x, s, after, ic)
                  IN  {i \in Positions(s) : i \in G \/ i \in more}

\* Pick(x, s, i, G, caps, ic): for i in Start(x, s, G, ic), the end of the
\* stretch that x takes and the groups it sets, in the order Python's re
\* tries the choices: greedy before shorter, lazy before longer, alternatives
\* left to right, each choice the first one from which the rest still matches.
\* the result r of a group's item, with the group's span recorded
Captured(n, i, r) == [to |-> r.to, caps |-> [r.caps EXCEPT ![n] = <<i, r.to>>]]

RECURSIVE Pick(_, _, _, _, _, _), PickSeq(_, _, _, _, _, _, _, _)
RECURSIVE PickRep(_, _, _, _, _, _, _, _, _), SuffixStarts(_, _, _, _, _, _)
RECURSIVE PickOne(_, _, _, _, _, _, _, _, _, _, _), PickNext(_, _, _, _, _, _, _, _)
Pick(x, s, i, G, caps, ic) ==
    CASE x.t = "lit" -> [to |-> i + Len(x.s), caps |-> caps]
      [] x.t \in {"set", "any"} -> [to |-> i + 1, caps |-> caps]
      [] x.t \in {"wb", "bol", "eol"} -> [to |-> i, caps |-> caps]
      [] x.t = "seq" ->
           IF Len(x.xs) = 0 THEN [to |-> i, caps |-> caps]
           ELSE PickSeq(x.xs, 1, Len(x.xs), s, i,
                        SuffixStarts(x.xs, 1, Len(x.xs), s, G, ic) \o <<G>>, caps, ic)
      [] x.t = "alt" ->
           Pick(x.xs[SetMin({a \in 1..Len(x.xs) : i \in Start(x.xs[a], s, G, ic)})],
                s, i, G, caps, ic)
      [] x.t = "rep" /\ x.x.t \in {"set", "any"} ->
           LET ns == {n \in x.lo..RunLen(x.x, s, i, x.hi, ic) : (i + n) \in G}
           IN  [to |-> i + (IF x.lazy THEN SetMin(ns) ELSE SetMax(ns)),
                caps |-> caps]
      [] x.t = "rep" /\ x.x.t \notin {"set", "any"} ->
           PickRep(x.x, x.lo, x.hi, x.lazy, s, i, G, caps, ic)
      [] x.t = "grp" -> Captured(x.n, i, Pick(x.x, s, i, G, caps, ic))

\* the start sets of xs[a..b], xs[a+1..b], ..., xs[b..b], each ending in G
SuffixStarts(xs, a, b, s, G, ic) ==
    IF a = b THEN <<Start(xs[a], s, G, ic)>>
    ELSE LET later   == SuffixStarts(xs, (a + b) \div 2 + 1, b, s, G, ic)
             earlier == SuffixStarts(xs, a, (a + b) \div 2, s, later[1], ic)
         IN  earlier \o later

\* the items xs[a..b] from i on, the item xs[c] ending where xs[c+1..] can
\* start (sets[c + 1]; after the last item, in G): the earlier half, then
\* the later half from where that one ended
PickSeq(xs, a, b, s, i, sets, caps, ic) ==
    IF a = b THEN Pick(xs[a], s, i, sets[a + 1], caps, ic)
    ELSE LET r == PickSeq(xs, a, (a + b) \div 2, s, i, sets, caps, ic)
         IN  IF r.to \in sets[(a + b) \div 2 + 1]
             THEN PickSeq(xs, (a + b) \div 2 + 1, b, s, r.to, sets, r.caps, ic)
             ELSE [to |-> 0, caps |-> caps]

\* x{lo,hi} and x{lo,hi}? from i on
PickRep(x, lo, hi, lazy, s, i, G, caps, ic) ==
    IF hi = 0 THEN [to |-> i, caps |-> caps]
    ELSE PickOne(x, lo, Max(0, lo - 1), IF hi = -1 THEN -1 ELSE hi - 1, lazy, s, i, G,
                 Start(Rep(x, Max(0, lo - 1), IF hi = -1 THEN -1 ELSE hi - 1), s, G, ic),
                 caps, ic)

\* one more x when the minimum asks for it, when the lazy repeat cannot stop
\* at i, or when the greedy one can go on; after: where the repeats that
\* follow can start
PickOne(x, lo, lo1, hi1, lazy, s, i, G, after, caps, ic) ==
    IF lo > 0 \/ (lazy /\ i \notin G) \/ (~lazy /\ i \in Start(x, s, after, ic))
    THEN PickNext(x, lo1, hi1, lazy, s, Pick(x, s, i, after, caps, ic), G, ic)
    ELSE [to |-> i, caps |-> caps]

PickNext(x, lo1, hi1, lazy, s, r, G, ic) ==
    PickRep(x, lo1, hi1, lazy, s, r.to, G, r.caps, ic)

\* the match object of a match from i that Pick found to end at r.to
Matched(i, r) == [ok |-> TRUE, from |-> i, to |-> r.to, caps |-> r.caps]

\* the match that starts at i, for i among the starts of re
MatchOf(re, s, i, ic) == Matched(i, Pick(re, s, i, Positions(s), NoCaps, ic))

\* the match from the leftmost of the starts
LeftmostOf(re, s, starts, ic) ==
    IF starts = {} THEN NoMatch ELSE MatchOf(re, s, SetMin(starts), ic)

\* pattern.match(s) at position i
MatchAt(re, s, i, ic) ==
    IF i \in Start(re, s, Positions(s), ic) THEN MatchOf(re, s, i, ic) ELSE NoMatch

\* pattern.search(s) from position i on: the leftmost match
SearchFrom(re, s, i, ic) ==
    LeftmostOf(re, s, {j \in Start(re, s, Positions(s), ic) : j >= i}, ic)

\* re.compile(..., re.IGNORECASE).search(str)
Search(re, str) == SearchFrom(re, Chars(str), 1, TRUE)

\* re.search(...) without flags
SearchCase(re, str) == SearchFrom(re, Chars(str), 1, FALSE)

\* match.group(n): "" stands for None (a group that took no part)
Group(m, str, n) ==
    IF m.caps[n][1] = 0 THEN ""
    ELSE SubSeq(str, m.caps[n][1], m.caps[n][2] - 1)

\* match.group(0)
Group0(m, str) == SubSeq(str, m.from, m.to - 1)

\* x in s  (substring test)
Contains(str, x) ==
    \E i \in 1..(Len(str) - Len(x) + 1) : SubSeq(str, i, i + Len(x) - 1) = x

\* doc.sents of the spaCy pipeline (line 9): the text split after each
\* sentence-final '.', '!' or '?' that is followed by a space; each sentence
\* is the span without the separating space.
SentEnds(str) ==
    {i \in 1..Len(str) - 1 :
        SubSeq(str, i, i) \in {".", "!", "?"} /\ SubSeq(str, i + 1, i + 1) = " "}

RECURSIVE SentsFrom(_, _)
SentsFrom(str, start) ==
    LET ends == {i \in SentEnds(str) : i >= start}
    IN  IF start > Len(str) THEN <<>>
        ELSE IF ends = {} THEN <<SubSeq(str, start, Len(str))>>
        ELSE LET e == CHOOSE i \in ends : \A j \in ends : i <= j
             IN  <<SubSeq(str, start, e)>> \o SentsFrom(str, e + 2)

Sents(str) == SentsFrom(str, 1)

-----------------------------------------------------------------------------
(* Spoken numbers *)

NUM_WORDS ==
    [zero |-> 0, one |-> 1, two |-> 2, three |-> 3, four |-> 4, five |-> 5,
     six |-> 6, seven |-> 7, eight |-> 8, nine |-> 9, ten |-> 10,
     eleven |-> 11, twelve |-> 12, thirteen |-> 13, fourteen |-> 14,
     fifteen |-> 15, sixteen |-> 16, seventeen |-> 17, eighteen |-> 18,
     nineteen |-> 19, twenty |-> 20, thirty |-> 30, forty |-> 40,
     fifty |-> 50, sixty |-> 60, seventy |-> 70, eighty |-> 80,
     ninety |-> 90, hundred |-> 100]

\* str(n) for n >= 0
RECURSIVE IntToStr(_)
IntToStr(n) ==
    IF n < 10 THEN SubSeq(DigitAlphabet, n + 1, n + 1)
    ELSE IntToStr(n \div 10) \o SubSeq(DigitAlphabet, (n % 10) + 1, (n % 10) + 1)

\* str.split(): the maximal runs of non-whitespace characters, in order
RECURSIVE SplitFrom(_, _)
SplitFrom(str, start) ==
    LET solid == {i \in start..Len(str) : SubSeq(str, i, i) \notin SpaceSet}
    IN  IF solid = {} THEN <<>>
        ELSE LET b == CHOOSE i \in solid : \A j \in solid : i <= j
                 gaps == {i \in b..Len(str) : SubSeq(str, i, i) \in SpaceSet}
                 e == IF gaps = {} THEN Len(str) + 1
                      ELSE CHOOSE i \in gaps : \A j \in gaps : i <= j
             IN  <<SubSeq(str, b, e - 1)>> \o SplitFrom(str, e)

Split(str) == SplitFrom(str, 1)

IsDigits(tok) == Len(tok) > 0 /\ \A i \in 1..Len(tok) : SubSeq(tok, i, i) \in DigitSet

\* the loop with 'hundred' taken as a number word like the others
RECURSIVE spoken_digits_hundred(_)
spoken_digits_hundred(tokens) ==
    IF Len(tokens) = 0 THEN <<>>
    ELSE LET tok == Head(tokens)
         IN  IF tok \in DOMAIN NUM_WORDS
             THEN <<IntToStr(NUM_WORDS[tok])>> \o spoken_digits_hundred(Tail(tokens))
             ELSE IF tok \in {"oh", "o"}
             THEN <<"0">> \o spoken_digits_hundred(Tail(tokens))
             ELSE IF IsDigits(tok)
             THEN <<tok>> \o spoken_digits_hundred(Tail(tokens))
             ELSE <<>>

\* the loop of spoken_to_number: the digit pieces of the tokens consumed
RECURSIVE spoken_digits(_)
spoken_digits(tokens) ==
    IF Len(tokens) = 0 THEN <<>>
    ELSE LET tok == Head(tokens)
         IN  IF tok \in DOMAIN NUM_WORDS /\ NUM_WORDS[tok] < 100
             THEN <<IntToStr(NUM_WORDS[tok])>> \o spoken_digits(Tail(tokens))
             ELSE IF tok \in {"oh", "o"}
             THEN <<"0">> \o spoken_digits(Tail(tokens))
             ELSE IF IsDigits(tok)
             THEN <<tok>> \o spoken_digits(Tail(tokens))
             ELSE <<>>

\* spoken_to_number: an integer, or -1 for None
spoken_to_number(str) ==
    LET digits == spoken_digits(Split(LowerStr(str)))
    IN  IF Len(digits) > 0 THEN IntOfDigits(Chars(StrOf(digits)), 0) ELSE -1

-----------------------------------------------------------------------------
(* Metric matchers *)

\* the alternations of the source, in the order written there
VerbsMetric == <<"was", "were", "of", "at", "totaled", "amounted to", "came in at",
                 "reported at", "reached">>
VerbsCameTo == <<"was", "were", "of", "at", "totaled", "amounted to", "came in at",
                 "reported at", "came to", "reached">>
VerbsLiquidityTotal == <<"was", "were", "of", "at", "totaled", "amounted to",
                         "reported at", "came in at", "reached", "stood at">>
VerbsLiquidityAfter == <<"was", "were", "of", "at", "totaled", "amounted to",
                         "reported at", "came in at", "stood at", "reached">>
VerbsInterest == <<"was", "were", "is", "of", "at", "to", "for", "totaled",
                   "amounted to", "came in at", "reported at", "reached">>
VerbsAdjNet == <<"was", "were", "is", "of", "at", "totaled", "amounted to",
                 "came in at", "reported at", "reached", "came to">>
Qualifiers == <<"approximately", "about", "around", "nearly", "over", "~">>
UnitsK  == <<"billion", "million", "thousand", "k", "bn", "mn", "mm", "m", "b">>
UnitsBK == <<"billion", "million", "thousand", "bn", "mn", "mm", "m", "b", "k">>

\* \s+word\s+word... for a phrase written with \s+ between its words
Phrase(ws) ==
    Cat([i \in 1..(2 * Len(ws) - 1) |->
            IF i % 2 = 1 THEN Lit(ws[(i + 1) \div 2]) ELSE Plus(S)])

\* [\d,]+(?:\.\d+)?
NumCommaDec == Cat(<<Plus(Set(DigitSet \cup {","})), Opt(Cat(<<Lit("."), Plus(D)>>))>>)
\* [\d,\.]+
NumLoose == Plus(Set(DigitSet \cup {",", "."}))
\* [\d]{1,3}(?:,\d{3})+|\d+(?:\.\d+)?
NumGrouped ==
    Alt(<<Cat(<<Rep(D, 1, 3), Plus(Cat(<<Lit(","), Rep(D, 3, 3)>>))>>),
          Cat(<<Plus(D), Opt(Cat(<<Lit("."), Plus(D)>>))>>)>>)
\* (?:\s+\w+){0,n}?
WordsLazy(n) == RepLazy(Cat(<<Plus(S), Plus(Wd)>>), 0, n)

\* normalize_number(match.group(n), match.group(u)) of a match of str
Normalized(m, str, n, u) == normalize_number(Group(m, str, n), Group(m, str, u))

\* float(match.group(n).replace(",", "")) with ValueError as None
FloatOfGroup(m, str, n) ==
    ParseFloat(StrOf(Without(Chars(Group(m, str, n)), {","})))

metric_pattern(keyword) ==
    Cat(<<Lit(keyword), RepLazy(Cat(<<Plus(S), Plus(Wd)>>), 0, -1), Star(S),
          Opt(Words(VerbsMetric)), Star(S),
          Opt(Words(Qualifiers)), Star(S),
          Opt(Lit("$")), Star(S),
          Grp(1, NumLoose),
          Opt(Cat(<<Star(S), Grp(2, Words(UnitsK))>>))>>)

\* parse_metric with the sign rule of the EPS matchers: a loss marker in
\* the text negates the value
parse_metric_signed(txt, keyword) ==
    LET t == clean_text(txt)
        match == Search(metric_pattern(keyword), t)
    IN  IF ~match.ok THEN None
        ELSE IF Contains(LowerStr(t), "negative") \/ Contains(LowerStr(t), "loss")
        THEN Neg(Normalized(match, t, 1, 2))
        ELSE Normalized(match, t, 1, 2)

parse_metric(txt, keyword) ==
    LET t == clean_text(txt)
        match == Search(metric_pattern(keyword), t)
    IN  IF match.ok THEN Normalized(match, t, 1, 2) ELSE None

revenue_pattern ==
    Cat(<<WB, Grp(1, Lit("revenue")), WB, WordsLazy(5),
          Opt(Words(VerbsMetric)), Star(S),
          Opt(Words(Qualifiers)), Star(S),
          Opt(Lit("$")), Star(S),
          Grp(2, NumCommaDec), Star(S),
          Opt(Grp(3, Words(UnitsK)))>>)

\* \$([\d,]{7,})(?:\.\d+)?
revenue_fallback_pattern ==
    Cat(<<Lit("$"), Grp(1, Rep(Set(DigitSet \cup {","}), 7, -1)),
          Opt(Cat(<<Lit("."), Plus(D)>>))>>)

\* pattern.findall(str): the successive non-overlapping matches from i on
RECURSIVE FindAllFrom(_, _, _)
FindAllFrom(re, str, i) ==
    LET m == SearchFrom(re, Chars(str), i, TRUE)
    IN  IF ~m.ok THEN <<>>
        ELSE <<m>> \o FindAllFrom(re, str, IF m.to = m.from THEN m.to + 1 ELSE m.to)

\* the loop over the matches: the first value that normalizes
RECURSIVE revenue_scan(_, _)
revenue_scan(matches, t) ==
    IF Len(matches) = 0 THEN None
    ELSE LET val == Normalized(Head(matches), t, 2, 3)
         IN  IF val # None THEN val ELSE revenue_scan(Tail(matches), t)

revenue_fallback(t) ==
    LET fallback_match == Search(revenue_fallback_pattern, t)
    IN  IF Contains(LowerStr(t), "revenue") /\ fallback_match.ok
        THEN normalize_number(Group(fallback_match, t, 1), "")
        ELSE None

\* parse_revenue with the large-literal scan tried before the near-keyword scan
parse_revenue_literal_first(txt) ==
    LET t == clean_text(txt)
        val == revenue_fallback(t)
    IN  IF val # None THEN val ELSE revenue_scan(FindAllFrom(revenue_pattern, t, 1), t)

parse_revenue(txt) ==
    LET t == clean_text(txt)
        val == revenue_scan(FindAllFrom(revenue_pattern, t, 1), t)
    IN  IF val # None THEN val ELSE revenue_fallback(t)

parse_consolidated_net_sales(txt) == parse_metric(txt, "consolidated net sales")
parse_consolidated_operating_income(txt) == parse_metric(txt, "consolidated operating income")
parse_marketplace_gov(txt) == parse_metric(txt, "marketplace gov")
parse_total_orders(txt) == parse_metric(txt, "total orders")
parse_gaap_net_income(txt) == parse_metric(txt, "gaap net income")

net_income_pattern ==
    Cat(<<WB, Lit("net"), Plus(S),
          Grp(1, Words(<<"income", "earnings", "profit", "loss">>)), WB,
          WordsLazy(6), Star(S),
          Opt(Words(VerbsCameTo)), Star(S),
          Opt(Words(Qualifiers)), Star(S),
          Opt(Lit("$")), Star(S),
          Grp(2, NumCommaDec), Star(S),
          Opt(Grp(3, Words(UnitsBK)))>>)

\* the loop with the sign taken from a loss/negative/deficit marker anywhere
\* in the sentence as well as from the head noun
RECURSIVE net_income_scan_marker(_)
net_income_scan_marker(sentences) ==
    IF Len(sentences) = 0 THEN None
    ELSE LET s == Head(sentences)
             m == Search(net_income_pattern, s)
         IN  IF m.ok
             THEN LET val == normalize_number(
                                StrOf(Without(Chars(Group(m, s, 2)), {","})),
                                Group(m, s, 3))
                  IN  IF val # None
                         /\ (LowerStr(Group(m, s, 1)) = "loss"
                             \/ Search(Cat(<<WB, Words(<<"loss", "negative", "deficit">>), WB>>), s).ok)
                      THEN Neg(val) ELSE val
             ELSE net_income_scan_marker(Tail(sentences))

\* the loop over the sentences: the first sentence the pattern matches decides
RECURSIVE net_income_scan(_)
net_income_scan(sentences) ==
    IF Len(sentences) = 0 THEN None
    ELSE LET s == Head(sentences)
             m == Search(net_income_pattern, s)
         IN  IF m.ok
             THEN LET val == normalize_number(
                                StrOf(Without(Chars(Group(m, s, 2)), {","})),
                                Group(m, s, 3))
                  IN  IF val # None /\ LowerStr(Group(m, s, 1)) = "loss"
                      THEN Neg(val) ELSE val
             ELSE net_income_scan(Tail(sentences))

\* every sentence kept
keep_adjusted(s) == TRUE

\* the sentences kept by "adjusted net income" not in s.text.lower()
not_adjusted(s) == ~Contains(LowerStr(s), "adjusted net income")

parse_net_income(txt) ==
    LET t == clean_text(txt)
        sentences == SelectSeq(Sents(t), not_adjusted)
    IN  net_income_scan(sentences)

adjusted_ebitda_after ==
    Cat(<<Phrase(<<"adjusted", "ebitda">>), WordsLazy(3), Star(S),
          Opt(Words(VerbsCameTo)), Star(S),
          Opt(Words(Qualifiers)), Star(S),
          Opt(Lit("$")), Star(S),
          Grp(1, NumCommaDec), Star(S),
          Opt(Grp(2, Words(UnitsK)))>>)

adjusted_ebitda_before ==
    Cat(<<Opt(Lit("$")), Star(S), Grp(1, NumCommaDec), Star(S),
          Opt(Grp(2, Words(UnitsK))), Plus(S), Phrase(<<"adjusted", "ebitda">>)>>)

\* normalize_number(match.group(n).replace(",", ""), match.group(u))
NormalizedNoComma(m, str, n, u) ==
    normalize_number(StrOf(Without(Chars(Group(m, str, n)), {","})), Group(m, str, u))

parse_adjusted_ebitda(txt) ==
    LET t == clean_text(txt)
        after == Search(adjusted_ebitda_after, t)
        before == Search(adjusted_ebitda_before, t)
    IN  IF after.ok THEN NormalizedNoComma(after, t, 1, 2)
        ELSE IF before.ok THEN NormalizedNoComma(before, t, 1, 2)
        ELSE None

available_liquidity_before ==
    Cat(<<Opt(Lit("$")), Star(S), Grp(1, NumLoose), Star(S),
          Opt(Grp(2, Words(UnitsK))), Plus(S), Words(<<"in", "of", "was">>),
          Plus(S), Phrase(<<"available", "liquidity">>)>>)

parse_available_liquidity(txt) ==
    LET val == parse_metric(txt, "available liquidity")
        t == clean_text(txt)
        match == Search(available_liquidity_before, t)
    IN  IF val # None THEN val
        ELSE IF match.ok THEN Normalized(match, t, 1, 2)
        ELSE None

net_cash_balance_pattern ==
    Cat(<<Lit("net cash balance"), Plus(S), Opt(Words(<<"at", "of", "was">>)), Star(S),
          Opt(Lit("$")), Star(S), Grp(1, NumLoose), Star(S),
          Opt(Grp(2, Words(UnitsK)))>>)

parse_net_cash_balance(txt) ==
    LET t == clean_text(txt)
        match == Search(net_cash_balance_pattern, t)
    IN  IF match.ok THEN Normalized(match, t, 1, 2) ELSE None

credit_facility_pattern ==
    Cat(<<Opt(Lit("$")), Star(S), Grp(1, NumLoose), Star(S),
          Opt(Grp(2, Words(UnitsBK))), Plus(S), Lit("credit facility")>>)

parse_credit_facility(txt) ==
    LET t == clean_text(txt)
        match == Search(credit_facility_pattern, t)
    IN  IF match.ok THEN Normalized(match, t, 1, 2) ELSE None

BuybackWords == <<"share buybacks", "share repurchases", "dividends">>
BuybackLinks == <<"of", "in", "towards", "for", "used for", "was", "were",
                  "deployed towards">>

\* (?:\s*(?:of|in|...)?\s*(?:\w+\s*){0,6})
buyback_gap ==
    Cat(<<Star(S), Opt(Words(BuybackLinks)), Star(S),
          Rep(Cat(<<Plus(Wd), Star(S)>>), 0, 6)>>)

buybacks_pattern ==
    Cat(<<Opt(Words(<<"nearly", "approximately", "~", "about", "around", "over">>)),
          Star(S), Opt(Lit("$")), Star(S), Grp(1, NumCommaDec),
          Opt(Cat(<<Star(S), Grp(2, Words(UnitsK))>>)),
          buyback_gap, Grp(3, Words(BuybackWords))>>)

buybacks_pattern_rev ==
    Cat(<<Grp(1, Words(BuybackWords)), buyback_gap,
          Opt(Lit("$")), Star(S), Grp(2, NumCommaDec),
          Opt(Cat(<<Star(S), Grp(3, Words(UnitsK))>>))>>)

parse_share_buybacks_and_dividends(txt) ==
    LET t == clean_text(txt)
        match == Search(buybacks_pattern, t)
        rev == Search(buybacks_pattern_rev, t)
    IN  IF match.ok THEN Normalized(match, t, 1, 2)
        ELSE IF rev.ok THEN Normalized(rev, t, 2, 3)
        ELSE None

combined_rate_pattern ==
    Cat(<<Lit("preliminary combined rate for AR6"), Star(S),
          Opt(Words(<<"is", "of", "was">>)), Star(S),
          Grp(1, NumLoose), Star(S), Lit("%")>>)

parse_combined_rate_ar6(txt) ==
    LET t == clean_text(txt)
        match == Search(combined_rate_pattern, t)
    IN  IF match.ok THEN FloatOfGroup(match, t, 1) ELSE None

lumber_pattern ==
    Cat(<<Lit("lumber segment"), RepLazy(AnyChar, 0, -1), Lit("adjusted ebitda"),
          Star(S), Opt(Words(<<"of", "was">>)), Star(S), Opt(Lit("$")), Star(S),
          Grp(1, NumCommaDec), Star(S), Opt(Grp(2, Words(UnitsK)))>>)

parse_lumber_segment_adjusted_ebitda(txt) ==
    LET t == clean_text(txt)
        match == Search(lumber_pattern, t)
    IN  IF match.ok THEN Normalized(match, t, 1, 2) ELSE None

orders_pattern ==
    Cat(<<Lit("orders"), Plus(S),
          Opt(Words(<<"of", "were", "was", "totaled", "amounted to">>)), Star(S),
          Opt(Lit("$")), Grp(1, NumLoose)>>)

\* the loop over the sentences: the first sentence with "orders" that the
\* pattern matches decides
RECURSIVE orders_scan(_)
orders_scan(sentences) ==
    IF Len(sentences) = 0 THEN None
    ELSE LET s == Head(sentences)
             match == Search(orders_pattern, s)
         IN  IF Contains(LowerStr(s), "orders") /\ match.ok
             THEN normalize_number(Group(match, s, 1), "")
             ELSE orders_scan(Tail(sentences))

parse_orders(txt) == orders_scan(Sents(clean_text(txt)))

cash_flow_pattern ==
    Cat(<<Words(<<"generated", "was", "were", "of", "totaled", "amounted to">>),
          Star(S), Opt(Lit("$")), Grp(1, NumLoose)>>)

RECURSIVE cash_flow_scan(_)
cash_flow_scan(sentences) ==
    IF Len(sentences) = 0 THEN None
    ELSE LET s == LowerStr(Head(sentences))
             match == Search(cash_flow_pattern, Head(sentences))
         IN  IF /\ ~Contains(s, "free cash flow")
                /\ Contains(s, "cash flow") \/ Contains(s, "cash from operations")
                /\ match.ok
             THEN normalize_number(Group(match, Head(sentences), 1), "")
             ELSE cash_flow_scan(Tail(sentences))

parse_cash_flow(txt) == cash_flow_scan(Sents(clean_text(txt)))

gaap_diluted_eps_pattern ==
    Cat(<<Lit("gaap diluted eps"), RepLazy(AnyChar, 0, -1), Opt(Lit("$")), Star(S),
          Grp(1, Plus(Set(DigitSet \cup {",", ".", "-"})))>>)

parse_gaap_diluted_eps(txt) ==
    LET t == clean_text(txt)
        match == Search(gaap_diluted_eps_pattern, t)
    IN  IF match.ok THEN FloatOfGroup(match, t, 1) ELSE None

adjusted_eps_pattern ==
    Cat(<<WB, Words(<<"was", "were", "of", "at", "totaled", "amounted to">>), Star(S),
          Opt(Lit("$")),
          Grp(1, Cat(<<Opt(Lit("-")), Plus(D), Lit("."), Plus(D)>>))>>)

RECURSIVE adjusted_eps_scan(_)
adjusted_eps_scan(sentences) ==
    IF Len(sentences) = 0 THEN None
    ELSE LET s == Head(sentences)
             match == Search(adjusted_eps_pattern, s)
         IN  IF /\ Contains(LowerStr(s), "adjusted")
                /\ Contains(LowerStr(s), "eps")
                /\ match.ok
             THEN ParseFloat(Group(match, s, 1))
             ELSE adjusted_eps_scan(Tail(sentences))

parse_adjusted_eps(txt) == adjusted_eps_scan(Sents(clean_text(txt)))

actual_eps_pattern ==
    Cat(<<Phrase(<<"actual", "eps">>), Star(Set(SpaceSet \cup {":"})),
          Opt(Lit("$")), Star(S),
          Grp(1, Cat(<<Opt(Lit("-")), NumLoose>>))>>)

actual_eps_spoken_pattern ==
    Cat(<<Phrase(<<"actual", "eps">>), Plus(S),
          Opt(Words(<<"of", "was", "were", "at", "totaled">>)), Star(S),
          Grp(1, Plus(Set(LowerSet \cup SpaceSet))), Star(S),
          Grp(2, Alt(<<Cat(<<Lit("cent"), Opt(Lit("s"))>>),
                       Cat(<<Lit("dollar"), Opt(Lit("s"))>>)>>))>>)

\* \b(loss|negative|deficit)\b
loss_marker_pattern == Cat(<<WB, Words(<<"loss", "negative", "deficit">>), WB>>)

\* no marker seen
no_loss_marker(t) == FALSE

has_loss_marker(t) == Search(loss_marker_pattern, t).ok

parse_actual_eps(txt) ==
    LET t == clean_text(txt)
        match == Search(actual_eps_pattern, t)
        spoken == Search(actual_eps_spoken_pattern, t)
    IN  IF match.ok
        THEN LET eps == FloatOfGroup(match, t, 1)
             IN  IF eps = None THEN None
                 ELSE Round3(IF has_loss_marker(t) THEN Neg(AbsDec(eps))
                             ELSE AbsDec(eps))
        ELSE IF spoken.ok
        THEN LET num_val == spoken_to_number(Group(spoken, t, 1))
                 val == IF Contains(LowerStr(Group(spoken, t, 2)), "cent")
                        THEN Scale10(DecOfInt(num_val), -2)
                        ELSE DecOfInt(num_val)
             IN  IF num_val = -1 THEN None
                 ELSE Round3(IF has_loss_marker(t) THEN Neg(val) ELSE val)
        ELSE None

net_revenue_margin_pattern ==
    Cat(<<Lit("net revenue margin"), RepLazy(AnyChar, 0, -1),
          Grp(1, NumLoose), Star(S), Lit("%")>>)

\* float(...) is not guarded here: a ValueError leaves the function
parse_net_revenue_margin(txt) ==
    LET t == clean_text(txt)
        match == Search(net_revenue_margin_pattern, t)
    IN  IF match.ok
        THEN (IF FloatOfGroup(match, t, 1) = None THEN Raise
              ELSE FloatOfGroup(match, t, 1))
        ELSE None

total_net_sales_dollar ==
    Cat(<<Phrase(<<"total", "net", "sales">>), WordsLazy(5), Star(S),
          Opt(Words(VerbsMetric)), Star(S),
          Opt(Words(Qualifiers)), Star(S),
          Lit("$"), Star(S), Grp(1, NumCommaDec), Star(S),
          Opt(Grp(2, Words(UnitsK)))>>)

total_net_sales_unit ==
    Cat(<<Phrase(<<"total", "net", "sales">>), WordsLazy(5), Star(S),
          Opt(Words(VerbsMetric)), Star(S),
          Opt(Words(Qualifiers)), Star(S),
          Grp(1, NumLoose), Star(S), Grp(2, Words(UnitsK))>>)

parse_total_net_sales(txt) ==
    LET t == clean_text(txt)
        match == Search(total_net_sales_dollar, t)
        match2 == Search(total_net_sales_unit, t)
    IN  IF match.ok THEN Normalized(match, t, 1, 2)
        ELSE IF match2.ok THEN Normalized(match2, t, 1, 2)
        ELSE None

liquidity_total ==
    Cat(<<WB, Phrase(<<"total", "liquidity">>), WordsLazy(3), Star(S),
          Opt(Words(VerbsLiquidityTotal)), Star(S),
          Opt(Lit("$")), Star(S), Grp(1, NumLoose), Star(S),
          Grp(2, Words(UnitsBK)), WB>>)

liquidity_before ==
    Cat(<<Opt(Lit("$")), Star(S), Grp(1, NumLoose), Star(S),
          Grp(2, Words(UnitsBK)), Plus(S),
          Opt(Words(<<"in", "of", "at", "was", "for", "representing">>)), Star(S),
          Lit("liquidity")>>)

liquidity_after ==
    Cat(<<WB, Lit("liquidity"), WordsLazy(3), Star(S),
          Opt(Words(VerbsLiquidityAfter)), Star(S),
          Opt(Lit("$")), Star(S), Grp(1, NumLoose), Star(S),
          Grp(2, Words(UnitsBK)), WB>>)

\* parse_liquidity with its stages in the opposite order
parse_liquidity_reversed(txt) ==
    LET t == clean_text(txt)
        m1 == Search(liquidity_total, t)
        m2 == Search(liquidity_before, t)
        m3 == Search(liquidity_after, t)
    IN  IF m3.ok THEN Normalized(m3, t, 1, 2)
        ELSE IF m2.ok THEN Normalized(m2, t, 1, 2)
        ELSE IF m1.ok THEN Normalized(m1, t, 1, 2)
        ELSE None

parse_liquidity(txt) ==
    LET t == clean_text(txt)
        m1 == Search(liquidity_total, t)
        m2 == Search(liquidity_before, t)
        m3 == Search(liquidity_after, t)
    IN  IF m1.ok THEN Normalized(m1, t, 1, 2)
        ELSE IF m2.ok THEN Normalized(m2, t, 1, 2)
        ELSE IF m3.ok THEN Normalized(m3, t, 1, 2)
        ELSE None

\* [\d]{1,3}(?:,\d{3})*(?:\.\d+)?|\d+(?:\.\d+)?
free_cash_flow_number ==
    Alt(<<Cat(<<Rep(D, 1, 3), Star(Cat(<<Lit(","), Rep(D, 3, 3)>>)),
                Opt(Cat(<<Lit("."), Plus(D)>>))>>),
          Cat(<<Plus(D), Opt(Cat(<<Lit("."), Plus(D)>>))>>)>>)

free_cash_flow_pattern ==
    Cat(<<Phrase(<<"free", "cash", "flow">>), Star(S),
          Opt(Words(<<"of", "was", "were">>)), Star(S), Opt(Lit("$")), Star(S),
          Grp(1, free_cash_flow_number), Star(S),
          Opt(Grp(2, Words(UnitsK)))>>)

\* works on the text as given: clean_text is not applied
parse_free_cash_flow(txt) ==
    LET match == Search(free_cash_flow_pattern, txt)
    IN  IF match.ok THEN Normalized(match, txt, 1, 2) ELSE None

interest_expense_after ==
    Cat(<<Phrase(<<"interest", "expense">>), WordsLazy(5), Star(S),
          Opt(Words(VerbsInterest)), Star(S),
          Opt(Words(Qualifiers)), Star(S),
          Opt(Lit("$")), Star(S), Grp(1, NumLoose), Star(S),
          Opt(Grp(2, Words(UnitsK)))>>)

interest_expense_before ==
    Cat(<<Opt(Lit("$")), Star(S), Grp(1, NumLoose), Star(S),
          Opt(Grp(2, Words(UnitsK))), WordsLazy(5), Plus(S),
          Phrase(<<"interest", "expense">>)>>)

parse_interest_expense(txt) ==
    LET t == clean_text(txt)
        m1 == Search(interest_expense_after, t)
        m2 == Search(interest_expense_before, t)
    IN  IF m1.ok THEN Normalized(m1, t, 1, 2)
        ELSE IF m2.ok THEN Normalized(m2, t, 1, 2)
        ELSE None

adjusted_net_income_before ==
    Cat(<<Opt(Lit("$")), Star(S), Grp(1, NumGrouped), Star(S),
          Opt(Grp(2, Words(UnitsBK))), WordsLazy(3), Plus(S),
          Phrase(<<"adjusted", "net", "income">>), WB>>)

adjusted_net_income_after ==
    Cat(<<WB, Phrase(<<"adjusted", "net", "income">>), WordsLazy(3), Star(S),
          Opt(Words(VerbsAdjNet)), Star(S),
          Opt(Words(Qualifiers)), Star(S),
          Opt(Lit("$")), Star(S), Grp(1, NumGrouped), Star(S),
          Grp(2, Words(UnitsBK)), WB>>)

parse_adjusted_net_income(txt) ==
    LET t == clean_text(txt)
        m1 == Search(adjusted_net_income_before, t)
        m2 == Search(adjusted_net_income_after, t)
    IN  IF m1.ok THEN Normalized(m1, t, 1, 2)
        ELSE IF m2.ok THEN Normalized(m2, t, 1, 2)
        ELSE None

percent_pattern == Cat(<<Grp(1, NumLoose), Star(S), Lit("%")>>)

\* str.find: the first index (from 1) of x in str, 0 when absent
Find(str, x) ==
    LET at == {i \in 1..(Len(str) - Len(x) + 1) : SubSeq(str, i, i + Len(x) - 1) = x}
    IN  IF at = {} THEN 0 ELSE CHOOSE i \in at : \A j \in at : i <= j

SnippetLen == 200

parse_net_income_margin(txt) ==
    LET t == LowerStr(clean_text(txt))
        keyword_pos == Find(t, "net income margin")
        last == IF keyword_pos + SnippetLen - 1 < Len(t)
                THEN keyword_pos + SnippetLen - 1 ELSE Len(t)
        snippet == SubSeq(t, keyword_pos, last)
        match == SearchCase(percent_pattern, snippet)
    IN  IF keyword_pos = 0 THEN None
        ELSE IF match.ok THEN FloatOfGroup(match, snippet, 1)
        ELSE None

\* (billion|million|thousand|bn|mn|mm|m|b|k) inside the captured number-and-unit
gaap_unit_pattern == Grp(1, Words(UnitsBK))

\* \$?([\d,.]+) at the start of the captured number-and-unit
gaap_number_pattern == Cat(<<Opt(Lit("$")), Grp(1, NumLoose)>>)

\* (\$?[\d,.]+(?:\.\d+)?(?:\s*(?:billion|...|k))?)
gaap_num_unit ==
    Cat(<<Opt(Lit("$")), NumLoose, Opt(Cat(<<Lit("."), Plus(D)>>)),
          Opt(Cat(<<Star(S), Words(UnitsBK)>>))>>)

gaap_operating_income_before ==
    Cat(<<Grp(1, gaap_num_unit),
          Cat(<<Star(S), Opt(Words(<<"of", "in", "for", "quarterly", "this quarter">>))>>),
          Star(S), Lit("gaap operating income")>>)

gaap_operating_income_after ==
    Cat(<<Lit("gaap operating income"), Star(S),
          Opt(Words(VerbsMetric)), Star(S), Grp(1, gaap_num_unit)>>)

\* the number and the unit taken out of the captured span, then normalized:
\* None when the span holds no number
gaap_split(match, t) ==
    LET num_unit == Group(match, t, 1)
        num_match == MatchAt(gaap_number_pattern, Chars(num_unit), 1, FALSE)
        unit_match == Search(gaap_unit_pattern, num_unit)
        number == IF num_match.ok THEN Group(num_match, num_unit, 1) ELSE ""
        u == IF unit_match.ok THEN Group(unit_match, num_unit, 1) ELSE ""
    IN  [found |-> number # "", val |-> normalize_number(number, u)]

parse_gaap_operating_income(txt) ==
    LET t == clean_text(txt)
        match == Search(gaap_operating_income_before, t)
        after == Search(gaap_operating_income_after, t)
    IN  IF match.ok /\ gaap_split(match, t).found THEN gaap_split(match, t).val
        ELSE IF after.ok /\ gaap_split(after, t).found THEN gaap_split(after, t).val
        ELSE None

total_available_liquidity_before ==
    Cat(<<Opt(Lit("$")), Star(S), Grp(1, NumLoose), Star(S),
          Opt(Grp(2, Words(UnitsK))), Plus(S), Lit("of"), Plus(S),
          Phrase(<<"total", "available", "liquidity">>)>>)

total_available_liquidity_after ==
    Cat(<<Phrase(<<"total", "available", "liquidity">>), Star(S),
          Opt(Words(VerbsLiquidityAfter)), Star(S),
          Opt(Lit("$")), Star(S), Grp(1, NumLoose), Star(S),
          Opt(Grp(2, Words(UnitsK)))>>)

parse_total_available_liquidity(txt) ==
    LET t == clean_text(txt)
        m1 == Search(total_available_liquidity_before, t)
        m2 == Search(total_available_liquidity_after, t)
    IN  IF m1.ok THEN Normalized(m1, t, 1, 2)
        ELSE IF m2.ok THEN Normalized(m2, t, 1, 2)
        ELSE parse_available_liquidity(txt)

-----------------------------------------------------------------------------
(* Sentence classifiers *)

\* the list with a sentence kept only where it stands first
BucketUnique(txt, Test(_)) ==
    LET all  == Sents(clean_text(txt))
        idx  == {i \in 1..Len(all) : Test(all[i]) /\ \A j \in 1..(i - 1) : all[j] # all[i]}
        kept == SelectSeq([i \in 1..Len(all) |-> IF i \in idx THEN all[i] ELSE ""],
                          LAMBDA x : x # "")
    IN  [i \in 1..Len(kept) |-> Strip(kept[i])]

\* [s.text.strip() for s in doc.sents if <test>]
Bucket(txt, Test(_)) ==
    LET kept == SelectSeq(Sents(clean_text(txt)), Test)
    IN  [i \in 1..Len(kept) |-> Strip(kept[i])]

\* any(p in s.text.lower() for p in phrases)
ContainsAny(s, phrases) == \E p \in phrases : Contains(LowerStr(s), p)

\* the pattern with the hyphens required: year-over-year only
year_over_year_hyphens ==
    Cat(<<Lit("year"), Lit("-"), Lit("over"), Lit("-"), Lit("year")>>)

year_over_year_pattern ==
    Cat(<<Lit("year"), Opt(Set({"-"} \cup SpaceSet)), Lit("over"),
          Opt(Set({"-"} \cup SpaceSet)), Lit("year")>>)
raising_pattern == Cat(<<WB, Lit("rais"), Words(<<"e", "ed", "ing">>), WB>>)
refinance_pattern == Cat(<<WB, Lit("refinanc"), Words(<<"e", "ed">>), WB>>)
challenge_pattern == Cat(<<WB, Lit("challeng"), Words(<<"e", "ed", "ing", "es">>), WB>>)

\* the demand sentences without their repeats
extract_demand_unique(txt) ==
    BucketUnique(txt, LAMBDA s : Contains(LowerStr(s), "demand"))

extract_demand_sentences(txt) ==
    Bucket(txt, LAMBDA s : Contains(LowerStr(s), "demand"))
extract_forward_looking_statements(txt) ==
    Bucket(txt, LAMBDA s : ContainsAny(s, {"we expect", "we anticipate", "looking ahead",
                                          "we forecast", "we believe", "we see",
                                          "we project"}))
extract_prior_year_comparisons(txt) ==
    Bucket(txt, LAMBDA s : ContainsAny(s, {"prior year", "last year", "last year's"}))
extract_year_over_year_sentences(txt) ==
    Bucket(txt, LAMBDA s : Search(year_over_year_pattern, s).ok)
extract_guidance_sentences(txt) ==
    Bucket(txt, LAMBDA s : Contains(LowerStr(s), "guidance"))
extract_compared_to_sentences(txt) ==
    Bucket(txt, LAMBDA s : Contains(LowerStr(s), "compared to"))
extract_raising_sentences(txt) ==
    Bucket(txt, LAMBDA s : Search(raising_pattern, s).ok)
extract_refinance_sentences(txt) ==
    Bucket(txt, LAMBDA s : Search(refinance_pattern, s).ok)
extract_production_sentences(txt) ==
    Bucket(txt, LAMBDA s : Contains(LowerStr(s), "production"))
extract_outlook_sentences(txt) ==
    Bucket(txt, LAMBDA s : ContainsAny(s, {"outlook", "expectation", "expectations",
                                          "forecast"}))
extract_challenge_sentences(txt) ==
    Bucket(txt, LAMBDA s : Search(challenge_pattern, s).ok)

-----------------------------------------------------------------------------
(* extract_metrics *)

\* remove_null_metrics that keeps every entry, the None ones too
keep_null_metrics(d) == d

remove_null_metrics(metrics_dict) ==
    [k \in {j \in DOMAIN metrics_dict : metrics_dict[j] # None} |-> metrics_dict[k]]

\* lines 765-792: every matcher's result under its key
matcher_results(txt) ==
    [revenue |-> parse_revenue(txt),
     consolidated_net_sales |-> parse_consolidated_net_sales(txt),
     consolidated_operating_income |-> parse_consolidated_operating_income(txt),
     orders |-> parse_orders(txt),
     total_orders |-> parse_total_orders(txt),
     marketplace_gov |-> parse_marketplace_gov(txt),
     adjusted_ebitda |-> parse_adjusted_ebitda(txt),
     lumber_segment_adjusted_ebitda |-> parse_lumber_segment_adjusted_ebitda(txt),
     available_liquidity |-> parse_available_liquidity(txt),
     liquidity |-> parse_liquidity(txt),
     net_cash_balance |-> parse_net_cash_balance(txt),
     credit_facility |-> parse_credit_facility(txt),
     cash_flow |-> parse_cash_flow(txt),
     net_revenue_margin |-> parse_net_revenue_margin(txt),
     gaap_net_income |-> parse_gaap_net_income(txt),
     net_income |-> parse_net_income(txt),
     gaap_diluted_eps |-> parse_gaap_diluted_eps(txt),
     adjusted_eps |-> parse_adjusted_eps(txt),
     actual_eps |-> parse_actual_eps(txt),
     share_buybacks_and_dividends |-> parse_share_buybacks_and_dividends(txt),
     combined_rate_ar6 |-> parse_combined_rate_ar6(txt),
     total_net_sales |-> parse_total_net_sales(txt),
     free_cash_flow |-> parse_free_cash_flow(txt),
     interest_expense |-> parse_interest_expense(txt),
     adjusted_net_income |-> parse_adjusted_net_income(txt),
     gaap_operating_income |-> parse_gaap_operating_income(txt),
     total_available_liquidity |-> parse_total_available_liquidity(txt)]

\* lines 797-807: every classifier's bucket under its key
\* the narrative categories with the empty ones left out
narrative_nonempty(txt) ==
    LET all == [guidance |-> extract_guidance_sentences(txt),
                forward_look |-> extract_forward_looking_statements(txt),
                prior_year_mentions |-> extract_prior_year_comparisons(txt),
                year_over_year_mentions |-> extract_year_over_year_sentences(txt),
                compared_to_mentions |-> extract_compared_to_sentences(txt),
                raising_mentions |-> extract_raising_sentences(txt),
                refinance_mentions |-> extract_refinance_sentences(txt),
                production |-> extract_production_sentences(txt),
                outlook |-> extract_outlook_sentences(txt),
                demand_mentions |-> extract_demand_sentences(txt),
                challenge_mentions |-> extract_challenge_sentences(txt)]
    IN  [k \in {c \in DOMAIN all : all[c] # <<>>} |-> all[k]]

narrative_results(txt) ==
    [guidance |-> extract_guidance_sentences(txt),
     forward_look |-> extract_forward_looking_statements(txt),
     prior_year_mentions |-> extract_prior_year_comparisons(txt),
     year_over_year_mentions |-> extract_year_over_year_sentences(txt),
     compared_to_mentions |-> extract_compared_to_sentences(txt),
     raising_mentions |-> extract_raising_sentences(txt),
     refinance_mentions |-> extract_refinance_sentences(txt),
     production |-> extract_production_sentences(txt),
     outlook |-> extract_outlook_sentences(txt),
     demand_mentions |-> extract_demand_sentences(txt),
     challenge_mentions |-> extract_challenge_sentences(txt)]

\* dict assignment results[k] = v for every key of more
Assign(d, more) ==
    [k \in DOMAIN d \cup DOMAIN more |-> IF k \in DOMAIN more THEN more[k] ELSE d[k]]

\* what extract_metrics hands back once the matchers have filled the
\* dictionary found: [raised, out]. The exception of a matcher leaves the
\* function (raised, nothing returned); otherwise out is the mapping returned:
\* the dictionary without its None entries, then the narrative keys assigned.
returned(found, txt) ==
    IF \E k \in DOMAIN found : found[k] = Raise
    THEN [raised |-> TRUE, out |-> <<>>]
    ELSE [raised |-> FALSE,
          out |-> Assign(remove_null_metrics(found), narrative_results(txt))]

-----------------------------------------------------------------------------
(* normalize_number on its own *)

MaxHead  == 2   \* leading digits of a literal
MaxZeros == 6   \* zeros (or nines) that follow them

RECURSIVE Repeat(_, _)
Repeat(str, n) == IF n = 0 THEN "" ELSE str \o Repeat(str, n - 1)

RECURSIVE Heads(_)
Heads(n) ==
    IF n = 0 THEN {""} ELSE {h \o d : h \in Heads(n - 1), d \in {"1", "2", "5", "9"}}

HeadStrings == UNION {Heads(n) : n \in 1..MaxHead}

\* whole amounts, amounts with decimals (some of them ties of round(x, 3)),
\* amounts just below a power of ten, and strings float() rejects
RoundLiterals  == {h \o Repeat("0", k) : h \in HeadStrings, k \in 0..MaxZeros}
FracLiterals   == {h \o f : h \in HeadStrings \cup {"0", ""},
                            f \in {".5", ".25", ".0005", ".1235", "."}}
NinesLiterals  == {Repeat("9", k) \o f : k \in 1..MaxZeros, f \in {"", ".5"}}
BadLiterals    == {"", ".", "..", "1.2.3", "1-2"}
PlainLiterals  == RoundLiterals \cup FracLiterals \cup NinesLiterals \cup BadLiterals

\* the same amounts written with a currency mark or a comma
Literals ==
    PlainLiterals
    \cup {"$" \o l : l \in PlainLiterals}
    \cup {SubSeq(l, 1, 1) \o "," \o SubSeq(l, 2, Len(l)) : l \in {x \in PlainLiterals : Len(x) >= 2}}

Units ==
    {"", "billion", "bn", "b", "million", "mn", "mm", "m", "thousand", "k",
     "Billion", "MM", "K", " million ", "trillion"}

InitNormalize ==
    /\ text = ""
    /\ num_str \in Literals
    /\ unit \in Units
    /\ roundTiesUp \in BOOLEAN
    /\ pc = "call"
    /\ results = <<>>
    /\ ret = None
    /\ file_name = ""
    /\ NoBatch

NormalizeNumber ==
    /\ pc = "call"
    /\ ret' = normalize_number(num_str, unit)
    /\ pc' = "done"
    /\ UNCHANGED <<text, num_str, unit, roundTiesUp, results, file_name, mainVars>>

SpecNormalize == InitNormalize /\ [][NormalizeNumber]_vars

\* the power of ten by which each unit of the rule scales an amount in millions
UnitPower ==
    [billion |-> 3, bn |-> 3, b |-> 3, million |-> 0, mn |-> 0, mm |-> 0,
     m |-> 0, thousand |-> -3, k |-> -3]

\* the amount a literal stands for, its commas and '$' ignored
LiteralValue(lit) == ParseFloat(StrOf(Without(Chars(lit), {",", "$"})))

\* a has at most three decimals and lies within half a thousandth of b
RoundedFrom(a, b) ==
    /\ a.tag = "val"
    /\ a.e >= -3
    /\ IF b.e >= -3 THEN a = b
       ELSE /\ NumDigits(Abs(a.m)) + (a.e - b.e) <= 9
            /\ Abs(a.m * Pow10(a.e - b.e) - b.m) <= 5 * Pow10(-4 - b.e)

\* C5: normalize_number(literal, unit) is the literal's value in millions
\* rounded to 3 decimals: times 1000 for billion/bn/b, unchanged for
\* million/mn/mm/m, divided by 1000 for thousand/k (whatever the case of the
\* unit), and without a unit divided by 1,000,000 from 1,000,000 on and
\* unchanged below; commas and '$' in the literal do not count.
\* ("2.5", billion) gives 2500, ("1500000", no unit) 1.5, ("500", thousand) 0.5.
C5_NormalizeRule ==
    (pc = "done" /\ LiteralValue(num_str) # None
        /\ (unit = "" \/ LowerStr(unit) \in DOMAIN UnitPower))
    => LET x == LiteralValue(num_str)
           k == IF unit # "" THEN UnitPower[LowerStr(unit)]
                ELSE IF AtLeastPow10(x, 6) THEN -6 ELSE 0
       IN  /\ RoundedFrom(ret, Scale10(x, k))
           /\ (num_str = "2.5" /\ unit = "billion") => ret = Canon(2500, 0)
           /\ (num_str = "1500000" /\ unit = "") => ret = Canon(15, -1)
           /\ (num_str = "500" /\ unit = "thousand") => ret = Canon(5, -1)

\* a raw count of 1,500,000 without a unit has come back as 1.5
C5_Witness ==
    pc = "done" /\ num_str = "1500000" /\ unit = "" /\ ret = Canon(15, -1)

-----------------------------------------------------------------------------
(* extract_metrics on a document *)

\* extract_metrics: the matchers fill the dictionary, the None entries are
\* dropped, the narrative keys are assigned, the mapping is returned
ExtractMetrics ==
    /\ pc = "call"
    /\ results' = matcher_results(text)
    /\ ret' = returned(results', text)
    /\ pc' = "done"
    /\ UNCHANGED <<text, num_str, unit, roundTiesUp, file_name, mainVars>>

MaxSents == 2   \* sentences of a document

SentencePool ==
    {"Revenue was $5 million.",
     "Net loss of $200 million.",
     "Net revenue margin was 12.5%.",
     "Net revenue margin was 1.2.3%.",
     "We are raising our full-year guidance!",
     "Nothing to see here."}

\* the documents of exactly n sentences of the pool
RECURSIVE TextsOf(_)
TextsOf(n) ==
    IF n = 0 THEN {""}
    ELSE {IF t = "" THEN s ELSE t \o " " \o s : t \in TextsOf(n - 1), s \in SentencePool}

Texts == UNION {TextsOf(n) : n \in 0..MaxSents}

InitExtract ==
    /\ text \in Texts
    /\ num_str = ""
    /\ unit = ""
    /\ roundTiesUp \in BOOLEAN
    /\ pc = "call"
    /\ results = <<>>
    /\ ret = None
    /\ file_name = ""
    /\ NoBatch

SpecExtract == InitExtract /\ [][ExtractMetrics]_vars

MetricKeys == DOMAIN matcher_results("")

NarrativeKeys ==
    {"guidance", "forward_look", "prior_year_mentions", "year_over_year_mentions",
     "compared_to_mentions", "raising_mentions", "refinance_mentions",
     "production", "outlook", "demand_mentions", "challenge_mentions"}

\* C1: the mapping extract_metrics returns never maps a metric name to None:
\* a metric whose matcher resolved no value has no key at all, and a text
\* without a revenue phrase yields a mapping without the key 'revenue'.
C1_NoNullMetric ==
    (pc = "done" /\ ~ret.raised)
    => /\ \A k \in MetricKeys \cap DOMAIN ret.out : ret.out[k] # None
       /\ \A k \in DOMAIN results : results[k] = None => k \notin DOMAIN ret.out
       /\ ~Contains(LowerStr(text), "revenue") => "revenue" \notin DOMAIN ret.out

\* a document with a net loss and no revenue phrase: net_income is there,
\* revenue resolved to None and has no key
C1_Witness ==
    /\ pc = "done" /\ ~ret.raised
    /\ results.revenue = None /\ "revenue" \notin DOMAIN ret.out
    /\ "net_income" \in DOMAIN ret.out

\* C2: the mapping extract_metrics returns holds all eleven narrative keys,
\* each mapped to a sequence, empty when no sentence matches (all of them
\* for the empty text); pruning the absent metrics removes none of them.
C2_NarrativeKeys ==
    (pc = "done" /\ ~ret.raised)
    => /\ \A k \in NarrativeKeys :
            /\ k \in DOMAIN ret.out
            /\ DOMAIN ret.out[k] = 1..Len(ret.out[k])
            /\ \A i \in DOMAIN ret.out[k] : Contains(text, ret.out[k][i])
       /\ text \in {"", "Nothing to see here."}
            => \A k \in NarrativeKeys : ret.out[k] = <<>>
       /\ (\A k \in DOMAIN results : results[k] = None)
            => DOMAIN ret.out = NarrativeKeys

\* the empty text: nothing but the eleven narrative keys, all empty
C2_Witness ==
    /\ pc = "done" /\ ~ret.raised /\ text = ""
    /\ DOMAIN ret.out = NarrativeKeys
    /\ \A k \in NarrativeKeys : ret.out[k] = <<>>

\* C3: no matcher run by extract_metrics raises, whatever text it captured
\* as a number.
C3_NeverRaises == pc = "done" => ~ret.raised

-----------------------------------------------------------------------------
(* The multi-stage matchers on a malformed first-stage literal *)

\* a first-stage phrase around a literal, and phrases of a later stage
StageTemplates ==
    {[head |-> "total liquidity of ", tail |-> " million", bad |-> "1.2.3",
      later |-> {"$500 million of liquidity"}],
     [head |-> "", tail |-> " million of total available liquidity", bad |-> "1.2.3",
      later |-> {"total available liquidity of $500 million"}],
     [head |-> "interest expense was ", tail |-> " million", bad |-> "1.2.3",
      later |-> {"$500 million of interest expense"}],
     [head |-> "adjusted EBITDA of ", tail |-> "", bad |-> ",",
      later |-> {"$500 million adjusted EBITDA"}],
     [head |-> "", tail |-> " million adjusted net income", bad |-> "1.2.3",
      later |-> {"adjusted net income of $500 million"}],
     [head |-> "total net sales of $", tail |-> "", bad |-> ",",
      later |-> {"total net sales of 500 million"}],
     [head |-> "", tail |-> " million of GAAP operating income", bad |-> "1.2.3",
      later |-> {"GAAP operating income of $500 million"}],
     [head |-> "available liquidity of ", tail |-> " million", bad |-> "1.2.3",
      later |-> {"$500 million of available liquidity"}],
     [head |-> "revenue of ", tail |-> "", bad |-> ",",
      later |-> {"revenue of $500 million", "$5,000,000"}]}

\* the first-stage phrase with its malformed literal or with "250", alone or
\* followed by a later-stage phrase
StageTexts ==
    UNION {{tp.head \o lit \o tp.tail \o (IF l = "" THEN "" ELSE " and " \o l) :
                lit \in {tp.bad, "250"}, l \in tp.later \cup {""}} :
           tp \in StageTemplates}

InitStages ==
    /\ text \in StageTexts
    /\ num_str = ""
    /\ unit = ""
    /\ roundTiesUp \in BOOLEAN
    /\ pc = "call"
    /\ results = <<>>
    /\ ret = None
    /\ file_name = ""
    /\ NoBatch

SpecStages == InitStages /\ [][ExtractMetrics]_vars

\* the value of one stage: None when its pattern has no match in t or the
\* captured literal does not parse
ValueOfMatch(m, t, n, u) == IF m.ok THEN Normalized(m, t, n, u) ELSE None

StageValue(re, t, n, u) == ValueOfMatch(Search(re, t), t, n, u)

ValueOfMatchNoComma(m, t, n, u) == IF m.ok THEN NormalizedNoComma(m, t, n, u) ELSE None

StageValueNoComma(re, t, n, u) == ValueOfMatchNoComma(Search(re, t), t, n, u)

ValueOfSplit(m, t) == IF m.ok /\ gaap_split(m, t).found THEN gaap_split(m, t).val ELSE None

StageValueSplit(re, t) == ValueOfSplit(Search(re, t), t)

\* the values of the findall matches, one by one
RECURSIVE MatchValues(_, _, _, _)
MatchValues(matches, t, n, u) ==
    IF Len(matches) = 0 THEN <<>>
    ELSE <<Normalized(Head(matches), t, n, u)>> \o MatchValues(Tail(matches), t, n, u)

\* the stages of each multi-stage matcher, in the order the matcher runs them
StagesOf(t) ==
    [liquidity |-> <<StageValue(liquidity_total, t, 1, 2),
                     StageValue(liquidity_before, t, 1, 2),
                     StageValue(liquidity_after, t, 1, 2)>>,
     total_available_liquidity |->
                   <<StageValue(total_available_liquidity_before, t, 1, 2),
                     StageValue(total_available_liquidity_after, t, 1, 2),
                     parse_metric(t, "available liquidity"),
                     StageValue(available_liquidity_before, t, 1, 2)>>,
     interest_expense |-> <<StageValue(interest_expense_after, t, 1, 2),
                            StageValue(interest_expense_before, t, 1, 2)>>,
     adjusted_ebitda |-> <<StageValueNoComma(adjusted_ebitda_after, t, 1, 2),
                           StageValueNoComma(adjusted_ebitda_before, t, 1, 2)>>,
     adjusted_net_income |-> <<StageValue(adjusted_net_income_before, t, 1, 2),
                               StageValue(adjusted_net_income_after, t, 1, 2)>>,
     total_net_sales |-> <<StageValue(total_net_sales_dollar, t, 1, 2),
                           StageValue(total_net_sales_unit, t, 1, 2)>>,
     gaap_operating_income |-> <<StageValueSplit(gaap_operating_income_before, t),
                                 StageValueSplit(gaap_operating_income_after, t)>>,
     available_liquidity |-> <<parse_metric(t, "available liquidity"),
                               StageValue(available_liquidity_before, t, 1, 2)>>,
     revenue |-> MatchValues(FindAllFrom(revenue_pattern, t, 1), t, 2, 3)
                 \o <<revenue_fallback(t)>>]

\* the first stage value that is not None
RECURSIVE FirstValue(_)
FirstValue(vals) ==
    IF Len(vals) = 0 THEN None
    ELSE IF Head(vals) # None THEN Head(vals) ELSE FirstValue(Tail(vals))

\* C4: every multi-stage matcher returns the value of the first stage that
\* matches with a literal that parses: a stage whose pattern matches but
\* whose captured literal is malformed counts as a non-match, and the later
\* stages still run.
C4_LaterStageReturned ==
    pc = "done"
    => \A k \in DOMAIN StagesOf("") :
           results[k] = FirstValue(StagesOf(clean_text(text))[k])

-----------------------------------------------------------------------------
(* net_income: head noun, markers and adjusted net income *)

NetNouns == {"income", "earnings", "profit", "loss"}
NetLinks == {"of", "was"}
NetMarkers == {"", "negative "}
NetAmounts == {"200", "2.5"}
NetUnits == {"million", "billion", ""}

\* "net <noun> <link> [negative ]$<n>[ <unit>]"
NetPhrase(noun, link, marker, n, u) ==
    "net " \o noun \o " " \o link \o " " \o marker \o "$" \o n
           \o (IF u = "" THEN "" ELSE " " \o u)

NetParams == NetNouns \X NetLinks \X NetMarkers \X NetAmounts \X NetUnits

AdjustedTexts ==
    {"adjusted net income was $50 million",
     "We report adjusted net income of $50 million.",
     "Adjusted net income was $50 million. Net loss of $200 million.",
     "Net loss of $200 million. Adjusted net income was $50 million.",
     "Adjusted net income was $50 million and net loss of $20 million.",
     "Adjusted Net Income of $2 billion rose. Adjusted net income was $50 million."}

NetIncomeTexts ==
    {NetPhrase(p[1], p[2], p[3], p[4], p[5]) : p \in NetParams} \cup AdjustedTexts

InitNetIncome ==
    /\ text \in NetIncomeTexts
    /\ num_str = ""
    /\ unit = ""
    /\ roundTiesUp \in BOOLEAN
    /\ pc = "call"
    /\ results = <<>>
    /\ ret = None
    /\ file_name = ""
    /\ NoBatch

SpecNetIncome == InitNetIncome /\ [][ExtractMetrics]_vars

\* C6: "net loss of $N <unit>" gives net_income minus the normalized
\* magnitude and "net income of $N <unit>" gives plus the normalized
\* magnitude: -200 for "net loss of $200 million", 200 for "net income of
\* $200 million".
C6_NetLossSign ==
    (pc = "done" /\ ~ret.raised)
    => /\ \A n \in NetAmounts, u \in NetUnits :
            /\ text = NetPhrase("loss", "of", "", n, u)
                 => /\ "net_income" \in DOMAIN ret.out
                    /\ ret.out.net_income.tag = "val"
                    /\ ret.out.net_income.m = -normalize_number(n, u).m
                    /\ ret.out.net_income.e = normalize_number(n, u).e
            /\ text = NetPhrase("income", "of", "", n, u)
                 => /\ "net_income" \in DOMAIN ret.out
                    /\ ret.out.net_income = normalize_number(n, u)
       /\ text = "net loss of $200 million"
            => ret.out.net_income = [tag |-> "val", m |-> -2, e |-> 2]
       /\ text = "net income of $200 million"
            => ret.out.net_income = [tag |-> "val", m |-> 2, e |-> 2]

\* a net loss of 2.5 billion has come back as -2500
C6_Witness ==
    /\ pc = "done" /\ ~ret.raised
    /\ text = "net loss of $2.5 billion"
    /\ ret.out.net_income = [tag |-> "val", m |-> -25, e |-> 2]

\* the sentence parse_net_income takes its value from: the first sentence
\* without "adjusted net income" that the pattern matches
RECURSIVE FirstNetSentence(_)
FirstNetSentence(sentences) ==
    IF Len(sentences) = 0 THEN ""
    ELSE IF ~Contains(LowerStr(Head(sentences)), "adjusted net income")
            /\ Search(net_income_pattern, Head(sentences)).ok
         THEN Head(sentences)
         ELSE FirstNetSentence(Tail(sentences))

RECURSIVE JoinOthers(_)
JoinOthers(sentences) ==
    IF Len(sentences) = 0 THEN ""
    ELSE IF Contains(LowerStr(Head(sentences)), "adjusted net income")
         THEN JoinOthers(Tail(sentences))
         ELSE Head(sentences) \o " " \o JoinOthers(Tail(sentences))

\* C9: net_income never comes from a sentence that holds 'adjusted net
\* income': it is what the text without those sentences gives, it has no key
\* when every sentence holds the phrase, and "adjusted net income was $50
\* million" gives adjusted_net_income = 50 and no net_income.
C9_AdjustedExcluded ==
    (pc = "done" /\ ~ret.raised)
    => /\ results.net_income = parse_net_income(JoinOthers(Sents(clean_text(text))))
       /\ (\A i \in DOMAIN Sents(clean_text(text)) :
               Contains(LowerStr(Sents(clean_text(text))[i]), "adjusted net income"))
            => "net_income" \notin DOMAIN ret.out
       /\ text = "adjusted net income was $50 million"
            => /\ "adjusted_net_income" \in DOMAIN ret.out
               /\ ret.out.adjusted_net_income = [tag |-> "val", m |-> 5, e |-> 1]
               /\ "net_income" \notin DOMAIN ret.out

\* the one-sentence text of the claim: adjusted_net_income 50, no net_income
C9_Witness ==
    /\ pc = "done" /\ ~ret.raised
    /\ text = "adjusted net income was $50 million"
    /\ ret.out.adjusted_net_income = [tag |-> "val", m |-> 5, e |-> 1]
    /\ "net_income" \notin DOMAIN ret.out

-----------------------------------------------------------------------------
(* actual_eps: numerals, spoken cents and loss markers *)

EpsLiterals == {"0.17", "-0.25", "1.05"}

\* what follows the amount: nothing, a marker in the same sentence, or
\* another sentence with or without a marker
EpsTails ==
    {"", " today", " (loss)", ", a loss",
     " today. Net loss narrowed.", " today. The deficit narrowed.",
     " today. Demand was strong."}

EpsNumeralTexts ==
    {"Actual EPS" \o sep \o dollar \o lit \o tail :
        sep \in {" ", ": "}, dollar \in {"", "$"}, lit \in EpsLiterals, tail \in EpsTails}

\* number words with the integer they stand for
SpokenTable ==
    {<<"five", 5>>, <<"twelve", 12>>, <<"seventeen", 17>>, <<"ninety", 90>>,
     <<"three eighteen", 318>>, <<"one oh five", 105>>}

SpokenWords == {p[1] : p \in SpokenTable} \cup {"twenty five"}

SpokenTails == {"", ", a loss", " today. Net loss narrowed.", " today. Demand was strong."}

EpsSpokenTexts ==
    {"actual EPS of " \o w \o " cents" \o tail : w \in SpokenWords, tail \in SpokenTails}

\* digit amounts in cents after a linking verb, with the cents
EpsCentsTable ==
    {<<"The actual EPS was 17 cents", 17>>, <<"Actual EPS was 17 cents.", 17>>,
     <<"The actual EPS of 25 cents today.", 25>>}

EpsCentsTexts == {p[1] : p \in EpsCentsTable}

InitActualEps ==
    /\ text \in EpsNumeralTexts \cup EpsSpokenTexts \cup EpsCentsTexts
    /\ num_str = ""
    /\ unit = ""
    /\ roundTiesUp \in BOOLEAN
    /\ pc = "call"
    /\ results = <<>>
    /\ ret = None
    /\ file_name = ""
    /\ NoBatch

SpecActualEps == InitActualEps /\ [][ExtractMetrics]_vars

\* the sentence that holds the 'actual EPS' phrase
RECURSIVE EpsSentence(_)
EpsSentence(sentences) ==
    IF Len(sentences) = 0 THEN ""
    ELSE IF Contains(LowerStr(Head(sentences)), "actual eps") THEN Head(sentences)
    ELSE EpsSentence(Tail(sentences))

\* C8: actual_eps is negative exactly when the sentence that holds the
\* matched 'actual EPS' phrase holds a 'loss', 'negative' or 'deficit'
\* marker: a marker in another sentence does not flip the sign, and a minus
\* sign without a marker gives a positive value.
C8_SentenceMarker ==
    (pc = "done" /\ ~ret.raised /\ "actual_eps" \in DOMAIN ret.out)
    => (ret.out.actual_eps.m < 0
        <=> Search(Cat(<<WB, Words(<<"loss", "negative", "deficit">>), WB>>),
                   EpsSentence(Sents(clean_text(text)))).ok)

\* C10: "actual EPS of <number words> cents" gives n/100 for the integer n
\* the words decode to, and -n/100 with a loss marker: 0.17 for "seventeen",
\* -0.17 for "seventeen cents, a loss".
C10_SpokenCents ==
    (pc = "done" /\ ~ret.raised)
    => /\ \A p \in SpokenTable :
            /\ text = "actual EPS of " \o p[1] \o " cents"
                 => /\ "actual_eps" \in DOMAIN ret.out
                    /\ ret.out.actual_eps = Canon(p[2], -2)
            /\ text = "actual EPS of " \o p[1] \o " cents, a loss"
                 => /\ "actual_eps" \in DOMAIN ret.out
                    /\ ret.out.actual_eps = Canon(-p[2], -2)
       /\ \A w \in SpokenWords :
            /\ text = "actual EPS of " \o w \o " cents"
                 => ret.out.actual_eps = Canon(spoken_to_number(w), -2)
            /\ text = "actual EPS of " \o w \o " cents, a loss"
                 => ret.out.actual_eps = Canon(-spoken_to_number(w), -2)

\* "actual EPS of seventeen cents, a loss" has come back as -0.17
C10_Witness ==
    /\ pc = "done" /\ ~ret.raised
    /\ text = "actual EPS of seventeen cents, a loss"
    /\ ret.out.actual_eps = [tag |-> "val", m |-> -17, e |-> -2]

\* C25: parse_actual_eps takes a digit amount in cents after a linking verb:
\* "The actual EPS was 17 cents" gives 0.17, and "Actual EPS $0.17" gives
\* 0.17.
C25_DigitCents ==
    (pc = "done" /\ ~ret.raised)
    => /\ \A p \in EpsCentsTable :
            text = p[1] => /\ "actual_eps" \in DOMAIN ret.out
                           /\ ret.out.actual_eps = Canon(p[2], -2)
       /\ text = "Actual EPS $0.17"
            => /\ "actual_eps" \in DOMAIN ret.out
               /\ ret.out.actual_eps = Canon(17, -2)

-----------------------------------------------------------------------------
(* spoken_to_number on token sequences *)

\* spoken_to_number(text): the integer, or -1 for None
SpokenToNumber ==
    /\ pc = "call"
    /\ ret' = [value |-> spoken_to_number(text)]
    /\ pc' = "done"
    /\ UNCHANGED <<text, num_str, unit, roundTiesUp, results, file_name, mainVars>>

MaxTokens == 2   \* tokens of a spoken phrase

\* tokens with the digits each contributes and how many digits that is;
\* width 0 marks a token the loop stops at
SpokenTokens ==
    {[tok |-> "three", val |-> 3, width |-> 1],
     [tok |-> "eighteen", val |-> 18, width |-> 2],
     [tok |-> "Twenty", val |-> 20, width |-> 2],
     [tok |-> "oh", val |-> 0, width |-> 1],
     [tok |-> "o", val |-> 0, width |-> 1],
     [tok |-> "zero", val |-> 0, width |-> 1],
     [tok |-> "four", val |-> 4, width |-> 1],
     [tok |-> "five", val |-> 5, width |-> 1],
     [tok |-> "5", val |-> 5, width |-> 1],
     [tok |-> "17", val |-> 17, width |-> 2],
     [tok |-> "hundred", val |-> 0, width |-> 0],
     [tok |-> "cents", val |-> 0, width |-> 0],
     [tok |-> "twenty-five", val |-> 0, width |-> 0]}

RECURSIVE TokenSeqsOf(_)
TokenSeqsOf(n) ==
    IF n = 0 THEN {<<>>}
    ELSE {Append(ts, t) : ts \in TokenSeqsOf(n - 1), t \in SpokenTokens}

TokenSeqs == UNION {TokenSeqsOf(n) : n \in 0..MaxTokens}

SpokenSeps == {" ", "\t "}

RECURSIVE JoinTokens(_, _)
JoinTokens(ts, sep) ==
    IF Len(ts) = 0 THEN ""
    ELSE IF Len(ts) = 1 THEN ts[1].tok
    ELSE ts[1].tok \o sep \o JoinTokens(Tail(ts), sep)

InitSpoken ==
    /\ text \in {JoinTokens(ts, sep) : ts \in TokenSeqs, sep \in SpokenSeps}
    /\ num_str = ""
    /\ unit = ""
    /\ roundTiesUp = FALSE
    /\ pc = "call"
    /\ results = <<>>
    /\ ret = None
    /\ file_name = ""
    /\ NoBatch

SpecSpoken == InitSpoken /\ [][SpokenToNumber]_vars

\* the number of tokens consumed: those before the first token of width 0
RECURSIVE Consumed(_)
Consumed(ts) ==
    IF Len(ts) = 0 \/ ts[1].width = 0 THEN 0 ELSE 1 + Consumed(Tail(ts))

\* the integer whose digits are the pieces of the first n tokens, in order
RECURSIVE PiecesValue(_, _)
PiecesValue(ts, n) ==
    IF n = 0 THEN 0
    ELSE PiecesValue(ts, n - 1) * Pow10(ts[n].width) + ts[n].val

TensWords  == {"twenty", "thirty", "forty", "fifty", "sixty", "seventy", "eighty", "ninety"}
UnitsWords == {"one", "two", "three", "four", "five", "six", "seven", "eight", "nine"}

\* the integer of the consumed tokens when a tens word and the units word
\* after it make one two-digit group (twenty five: 25)
RECURSIVE GroupedValue(_, _)
GroupedValue(ts, acc) ==
    IF Len(ts) = 0 \/ ts[1].width = 0 THEN acc
    ELSE IF /\ Len(ts) >= 2
            /\ LowerStr(ts[1].tok) \in TensWords
            /\ LowerStr(ts[2].tok) \in UnitsWords
    THEN GroupedValue(Tail(Tail(ts)), acc * 100 + ts[1].val + ts[2].val)
    ELSE GroupedValue(Tail(ts), acc * Pow10(ts[1].width) + ts[1].val)

\* C23: spoken_to_number makes one two-digit group of a tens word and the
\* units word after it: "twenty five" is 25 and "four twenty five" is 425.
C23_TensUnitsCombine ==
    pc = "done"
    => \A ts \in TokenSeqs, sep \in SpokenSeps :
           (text = JoinTokens(ts, sep) /\ Consumed(ts) > 0)
           => ret.value = GroupedValue(ts, 0)

-----------------------------------------------------------------------------
(* clean_text on short texts *)

\* clean_text applied once and applied to its own output
CleanText ==
    /\ pc = "call"
    /\ ret' = [once |-> clean_text(text), twice |-> clean_text(clean_text(text))]
    /\ pc' = "done"
    /\ UNCHANGED <<text, num_str, unit, roundTiesUp, results, file_name, mainVars>>

MaxChars == 4   \* characters of a text to clean

CleanAlphabet == {"a", ".", " ", "\n", "\t", "\r"}

RECURSIVE CleanTextsOf(_)
CleanTextsOf(n) ==
    IF n = 0 THEN {""}
    ELSE {t \o c : t \in CleanTextsOf(n - 1), c \in CleanAlphabet}

InitClean ==
    /\ text \in UNION {CleanTextsOf(n) : n \in 0..MaxChars}
    /\ num_str = ""
    /\ unit = ""
    /\ roundTiesUp = FALSE
    /\ pc = "call"
    /\ results = <<>>
    /\ ret = None
    /\ file_name = ""
    /\ NoBatch

SpecClean == InitClean /\ [][CleanText]_vars

\* C12: clean_text is idempotent, and its output holds no newline or tab,
\* no two adjacent whitespace characters and no leading or trailing space.
C12_CleanIdempotent ==
    pc = "done"
    => LET out == Chars(ret.once)
       IN  /\ ret.twice = ret.once
           /\ \A i \in 1..Len(out) : out[i] \notin SpaceSet \ {" "}
           /\ \A i \in 1..(Len(out) - 1) : ~(out[i] \in SpaceSet /\ out[i + 1] \in SpaceSet)
           /\ Len(out) > 0 => out[1] # " " /\ out[Len(out)] # " "

\* a text with a leading tab and an inner newline has been cleaned
C12_Witness ==
    pc = "done" /\ text = "\ta\n." /\ ret.once = "a ."

-----------------------------------------------------------------------------
(* parse_revenue: the near-keyword scan before the large-literal scan *)

\* sentences with the keyword, and the value in thousandths of a million
\* that the near-keyword scan yields (0: it yields none)
RevenueNear ==
    {[s |-> "Revenue was 14.4 billion.", milli |-> 14400000],
     [s |-> "Revenue of $2,500,000.", milli |-> 2500],
     [s |-> "Total revenue for the quarter reached $3 million.", milli |-> 3000],
     [s |-> "Revenue came in at approximately $1.2 billion today.", milli |-> 1200000],
     [s |-> "Revenue improved.", milli |-> 0],
     [s |-> "Revenue of , then.", milli |-> 0]}

\* sentences with a '$' literal of seven characters or more, and its value
RevenueLiterals ==
    {[s |-> "We paid $5,000,000 in fees.", milli |-> 5000],
     [s |-> "Costs were $12,345,678.90 overall.", milli |-> 12346],
     [s |-> "", milli |-> 0]}

RevenueJoints == {" ", "\n"}

\* the two sentences in either order
RevenueText(near, lit, joint, litFirst) ==
    IF lit.s = "" THEN near.s
    ELSE IF litFirst THEN lit.s \o joint \o near.s
    ELSE near.s \o joint \o lit.s

InitRevenue ==
    /\ text \in {RevenueText(near, lit, joint, litFirst) :
                     near \in RevenueNear, lit \in RevenueLiterals,
                     joint \in RevenueJoints, litFirst \in BOOLEAN}
    /\ num_str = ""
    /\ unit = ""
    /\ roundTiesUp \in BOOLEAN
    /\ pc = "call"
    /\ results = <<>>
    /\ ret = None
    /\ file_name = ""
    /\ NoBatch

SpecRevenue == InitRevenue /\ [][ExtractMetrics]_vars

\* C13: parse_revenue returns the near-keyword scan's value whenever that
\* scan yields one, whether a '$' literal the fallback would take stands
\* before or after the keyword; the fallback literal is returned only when
\* the near-keyword scan yields nothing.
C13_NearBeforeFallback ==
    (pc = "done" /\ ~ret.raised)
    => \A near \in RevenueNear, lit \in RevenueLiterals,
          joint \in RevenueJoints, litFirst \in BOOLEAN :
           text = RevenueText(near, lit, joint, litFirst)
           => IF near.milli # 0
              THEN /\ "revenue" \in DOMAIN ret.out
                   /\ Thousandths(ret.out.revenue) = near.milli
              ELSE IF lit.milli # 0
              THEN /\ "revenue" \in DOMAIN ret.out
                   /\ Thousandths(ret.out.revenue) = lit.milli
              ELSE "revenue" \notin DOMAIN ret.out

\* the near-keyword value has come back although a large literal stands
\* earlier in the text
C13_Witness ==
    /\ pc = "done"
    /\ text = "We paid $5,000,000 in fees. Revenue was 14.4 billion."
    /\ ~ret.raised
    /\ ret.out.revenue = [tag |-> "val", m |-> 144, e |-> 2]

-----------------------------------------------------------------------------
(* Ticker, quarter, year and date of a transcript *)

\* an optional string: Python's None, or a str
Unset  == [set |-> FALSE, s |-> ""]
Str(v) == [set |-> TRUE, s |-> v]

\* not v
Falsy(v) == ~v.set \/ v.s = ""

\* the positions of the character c in str
IndicesOf(str, c) == {i \in 1..Len(str) : SubSeq(str, i, i) = c}

\* "\n".join(text.split("\n")[:3]): the text before its third newline
FirstLines(str) ==
    LET third == {i \in IndicesOf(str, "\n") :
                     Cardinality({j \in IndicesOf(str, "\n") : j < i}) = 2}
    IN  IF third = {} THEN str ELSE SubSeq(str, 1, SetMin(third) - 1)

\* \(([A-Z]+):([A-Z]+)\)
ticker_pattern ==
    Cat(<<Lit("("), Grp(1, Plus(Set(UpperSet))), Lit(":"),
          Grp(2, Plus(Set(UpperSet))), Lit(")")>>)

\* \b(Q[1-4])\s+(\d{4})\b
quarter_year_pattern ==
    Cat(<<WB, Grp(1, Cat(<<Lit("Q"), Set({"1", "2", "3", "4"})>>)), Plus(S),
          Grp(2, Rep(D, 4, 4)), WB>>)

Months == <<"January", "February", "March", "April", "May", "June", "July",
            "August", "September", "October", "November", "December">>

\* (January|...|December)\s+\d{1,2},\s+\d{4}
date_pattern ==
    Cat(<<Words(Months), Plus(S), Rep(D, 1, 2), Lit(","), Plus(S), Rep(D, 4, 4)>>)

\* m.group(n) if m else None
GroupIf(m, str, n) == IF m.ok THEN Str(Group(m, str, n)) ELSE Unset

\* m.group(0) if m else None
Group0If(m, str) == IF m.ok THEN Str(Group0(m, str)) ELSE Unset

\* the three searches over the first lines
header_fields(first_lines) ==
    [ticker        |-> GroupIf(SearchCase(ticker_pattern, first_lines), first_lines, 2),
     quarter       |-> GroupIf(SearchCase(quarter_year_pattern, first_lines), first_lines, 1),
     year          |-> GroupIf(SearchCase(quarter_year_pattern, first_lines), first_lines, 2),
     earnings_date |-> Group0If(SearchCase(date_pattern, first_lines), first_lines)]

extract_ticker_quarter_year_date(txt) == header_fields(FirstLines(txt))

UpperOf == [c \in LowerSet |->
              LET i == CHOOSE j \in 1..26 : SubSeq(LowerAlphabet, j, j) = c
              IN  SubSeq(UpperAlphabet, i, i)]

\* str.upper()
UpperStr(str) ==
    StrOf([i \in 1..Len(str) |->
             IF SubSeq(str, i, i) \in LowerSet THEN UpperOf[SubSeq(str, i, i)]
             ELSE SubSeq(str, i, i)])

\* Path(file_name).stem of a name without directories: the name up to its
\* last dot, unless that dot is the first or the last character
Stem(name) ==
    LET dots == IndicesOf(name, ".")
    IN  IF dots = {} \/ SetMax(dots) = 1 \/ SetMax(dots) = Len(name) THEN name
        ELSE SubSeq(name, 1, SetMax(dots) - 1)

\* str.split(sep) for a one-character sep: the pieces between the seps
RECURSIVE SplitOn(_, _)
SplitOn(str, sep) ==
    LET seps == IndicesOf(str, sep)
    IN  IF seps = {} THEN <<str>>
        ELSE <<SubSeq(str, 1, SetMin(seps) - 1)>>
               \o SplitOn(SubSeq(str, SetMin(seps) + 1, Len(str)), sep)

\* " ".join(parts)
RECURSIVE JoinSpace(_)
JoinSpace(parts) ==
    IF Len(parts) = 0 THEN ""
    ELSE IF Len(parts) = 1 THEN parts[1]
    ELSE parts[1] \o " " \o JoinSpace(Tail(parts))

\* re.match(r"\d{4}", s): four digits at the start of s
year_pattern == Rep(D, 4, 4)

\* the fields taken from the parts of the stem
filename_fields(parts) ==
    LET last == parts[Len(parts)]
        dated == Len(parts) >= 4 /\ MatchAt(year_pattern, Chars(last), 1, FALSE).ok
    IN  [ticker        |-> Str(UpperStr(parts[1])),
         quarter       |-> IF Len(parts) > 1 THEN Str(parts[2]) ELSE Unset,
         year          |-> IF dated THEN Str(last) ELSE Unset,
         earnings_date |-> IF dated
                           THEN Str(JoinSpace(SubSeq(parts, 3, Len(parts) - 1)) \o " " \o last)
                           ELSE Unset]

extract_from_filename(name) == filename_fields(SplitOn(Stem(name), "_"))

\* the fallback taken field by field: only what the header lacks comes from
\* the filename
identity_per_field(header, name) ==
    [k \in {"ticker", "quarter", "year", "earnings_date"} |->
        IF Falsy(header[k]) THEN extract_from_filename(name)[k] ELSE header[k]]

\* lines 843-845: the header's fields when all four are there, else the
\* filename's
identity_of(header, name) ==
    IF Falsy(header.ticker) \/ Falsy(header.quarter) \/ Falsy(header.year)
       \/ Falsy(header.earnings_date)
    THEN extract_from_filename(name)
    ELSE header

\* lines 847-854: the record, or the exception extract_metrics raised
record_of(identity, name, metrics) ==
    IF metrics.raised THEN [raised |-> TRUE, record |-> <<>>]
    ELSE [raised |-> FALSE,
          record |-> [ticker |-> identity.ticker, quarter |-> identity.quarter,
                      year |-> identity.year, earnings_date |-> identity.earnings_date,
                      file_name |-> name, metrics |-> metrics.out]]

\* parse_transcript_file of a readable file with this name and content
parse_transcript_file(name, txt) ==
    record_of(identity_of(extract_ticker_quarter_year_date(txt), name), name,
              returned(matcher_results(txt), txt))

ParseTranscriptFile ==
    /\ pc = "call"
    /\ ret' = parse_transcript_file(file_name, text)
    /\ pc' = "done"
    /\ UNCHANGED <<text, num_str, unit, roundTiesUp, results, file_name, mainVars>>

\* transcript headers: whether the first three lines hold all of ticker,
\* quarter with year, and date, and what they hold
HeaderTexts ==
    {[s |-> "Apple Inc. (NASDAQ:AAPL)\nQ1 2024 Earnings Call\nJanuary 30, 2024\nRevenue was $5 million.",
      complete |-> TRUE, ticker |-> "AAPL", quarter |-> "Q1", year |-> "2024",
      earnings_date |-> "January 30, 2024"],
     [s |-> "Apple Inc. (NASDAQ:AAPL) Q3 2023 Earnings Call, November 2, 2023",
      complete |-> TRUE, ticker |-> "AAPL", quarter |-> "Q3", year |-> "2023",
      earnings_date |-> "November 2, 2023"],
     [s |-> "Apple Inc. (NASDAQ:AAPL)\nQ1 2024 Earnings Call\n\nJanuary 30, 2024",
      complete |-> FALSE, ticker |-> "AAPL", quarter |-> "Q1", year |-> "2024",
      earnings_date |-> ""],
     [s |-> "Q2 2024 Earnings Call\nMay 2, 2024",
      complete |-> FALSE, ticker |-> "", quarter |-> "Q2", year |-> "2024",
      earnings_date |-> "May 2, 2024"],
     [s |-> "Apple Inc. (NASDAQ:AAPL)\nJanuary 30, 2024",
      complete |-> FALSE, ticker |-> "AAPL", quarter |-> "", year |-> "",
      earnings_date |-> "January 30, 2024"],
     [s |-> "",
      complete |-> FALSE, ticker |-> "", quarter |-> "", year |-> "",
      earnings_date |-> ""],
     [s |-> "Apple (nasdaq:aapl) Q1 2024 january 30, 2024",
      complete |-> FALSE, ticker |-> "", quarter |-> "Q1", year |-> "2024",
      earnings_date |-> ""]}

\* file names, the parts of their stems, and the four fields the filename
\* gives
FileNames ==
    {[name |-> "AAPL_Q1_January_30_2024.txt",
      parts |-> <<"AAPL", "Q1", "January", "30", "2024">>,
      ticker |-> Str("AAPL"), quarter |-> Str("Q1"), year |-> Str("2024"),
      earnings_date |-> Str("January 30 2024")],
     [name |-> "msft_Q2_Jan_30_2024abc.txt",
      parts |-> <<"msft", "Q2", "Jan", "30", "2024abc">>,
      ticker |-> Str("MSFT"), quarter |-> Str("Q2"), year |-> Str("2024abc"),
      earnings_date |-> Str("Jan 30 2024abc")],
     [name |-> "AAPL_Q1_2024.txt",
      parts |-> <<"AAPL", "Q1", "2024">>,
      ticker |-> Str("AAPL"), quarter |-> Str("Q1"), year |-> Unset,
      earnings_date |-> Unset],
     [name |-> "TSLA_transcript_May_2_2023.txt",
      parts |-> <<"TSLA", "transcript", "May", "2", "2023">>,
      ticker |-> Str("TSLA"), quarter |-> Str("transcript"), year |-> Str("2023"),
      earnings_date |-> Str("May 2 2023")],
     [name |-> "AAPL.txt",
      parts |-> <<"AAPL">>,
      ticker |-> Str("AAPL"), quarter |-> Unset, year |-> Unset,
      earnings_date |-> Unset],
     [name |-> "NVDA_Q4_Feb_21_24.txt",
      parts |-> <<"NVDA", "Q4", "Feb", "21", "24">>,
      ticker |-> Str("NVDA"), quarter |-> Str("Q4"), year |-> Unset,
      earnings_date |-> Unset],
     [name |-> "AMZN_Q3_Oct_26_notes.txt",
      parts |-> <<"AMZN", "Q3", "Oct", "26", "notes">>,
      ticker |-> Str("AMZN"), quarter |-> Str("Q3"), year |-> Unset,
      earnings_date |-> Unset],
     [name |-> "GOOG_Q1_April_25_20245.txt",
      parts |-> <<"GOOG", "Q1", "April", "25", "20245">>,
      ticker |-> Str("GOOG"), quarter |-> Str("Q1"), year |-> Str("20245"),
      earnings_date |-> Str("April 25 20245")]}

InitIdentify ==
    /\ text \in {h.s : h \in HeaderTexts}
    /\ file_name \in {f.name : f \in FileNames}
    /\ num_str = ""
    /\ unit = ""
    /\ roundTiesUp = FALSE
    /\ pc = "call"
    /\ results = <<>>
    /\ ret = None
    /\ NoBatch

SpecIdentify == InitIdentify /\ [][ParseTranscriptFile]_vars

\* C14: the record holds the header's ticker, quarter, year and date only
\* when the first three lines gave all four; when any one is missing, all
\* four come from the filename and what the header did give is dropped.
C14_AllOrFilename ==
    (pc = "done" /\ ~ret.raised)
    => \A h \in HeaderTexts, f \in FileNames :
           (text = h.s /\ file_name = f.name)
           => IF h.complete
              THEN /\ ret.record.ticker = Str(h.ticker)
                   /\ ret.record.quarter = Str(h.quarter)
                   /\ ret.record.year = Str(h.year)
                   /\ ret.record.earnings_date = Str(h.earnings_date)
              ELSE /\ ret.record.ticker = f.ticker
                   /\ ret.record.quarter = f.quarter
                   /\ ret.record.year = f.year
                   /\ ret.record.earnings_date = f.earnings_date

\* a header with ticker, quarter and year but its date on the fourth line:
\* the record holds the filename's ticker and quarter
C14_Witness ==
    /\ pc = "done"
    /\ text = "Apple Inc. (NASDAQ:AAPL)\nQ1 2024 Earnings Call\n\nJanuary 30, 2024"
    /\ file_name = "TSLA_transcript_May_2_2023.txt"
    /\ ~ret.raised
    /\ ret.record.ticker = Str("TSLA")
    /\ ret.record.year = Str("2023")

\* C15: in every record, from the header or from the filename, quarter is
\* one of Q1, Q2, Q3, Q4 or unset and year is a run of digits or unset.
C15_QuarterYearDomain ==
    (pc = "done" /\ ~ret.raised)
    => /\ ret.record.quarter \in {Unset, Str("Q1"), Str("Q2"), Str("Q3"), Str("Q4")}
       /\ ret.record.year.set => IsDigits(ret.record.year.s)

\* C16: on the filename path, year is the last part of the stem exactly when
\* that part is numeric (whenever a part is left after ticker and quarter),
\* earnings_date is then the middle parts joined by spaces and the year, and
\* both stay unset when the last part is not numeric.
C16_YearIffNumeric ==
    (pc = "done" /\ ~ret.raised)
    => \A h \in HeaderTexts, f \in FileNames :
           (text = h.s /\ file_name = f.name /\ ~h.complete)
           => LET last == f.parts[Len(f.parts)]
              IN  IF Len(f.parts) >= 3 /\ IsDigits(last)
                  THEN /\ ret.record.year = Str(last)
                       /\ ret.record.earnings_date
                            = Str(JoinSpace(SubSeq(f.parts, 3, Len(f.parts) - 1)) \o " " \o last)
                  ELSE /\ ret.record.year = Unset
                       /\ ret.record.earnings_date = Unset

-----------------------------------------------------------------------------
(* main: the loop over the input directory and the write of the output *)

\* the exception that leaves parse_transcript_file
Failed == [raised |-> TRUE, record |-> <<>>]

\* a record that takes its ticker from the record appended before it
carry_ticker(r) ==
    IF r.raised \/ parsed_results = <<>> THEN r
    ELSE [r EXCEPT !.record.ticker = parsed_results[Len(parsed_results)].ticker]

\* parse_transcript_file with the ticker carried over from one document to
\* the next
read_and_parse_carry(doc) ==
    IF ~doc.readable THEN Failed
    ELSE carry_ticker(parse_transcript_file(doc.name, doc.text))

\* parse_transcript_file(file_path): open() and read() raise on a file that
\* cannot be read or decoded (lines 841-842)
read_and_parse(doc) ==
    IF ~doc.readable THEN Failed ELSE parse_transcript_file(doc.name, doc.text)

\* line 859: the record is appended, or the exception leaves main
MainStep(r) ==
    IF r.raised
    THEN pc' = "raised" /\ UNCHANGED parsed_results
    ELSE pc' = "loop" /\ parsed_results' = Append(parsed_results, r.record)

\* one turn of the loop of lines 858-859
MainLoop ==
    /\ pc = "loop"
    /\ Len(parsed_results) < Len(batch)
    /\ MainStep(read_and_parse(batch[Len(parsed_results) + 1]))
    /\ UNCHANGED <<text, num_str, unit, roundTiesUp, results, ret, file_name, batch, output>>

\* lines 860-863: the loop is over, the list is written
MainWrite ==
    /\ pc = "loop"
    /\ Len(parsed_results) = Len(batch)
    /\ output' = parsed_results
    /\ pc' = "done"
    /\ UNCHANGED <<text, num_str, unit, roundTiesUp, results, ret, file_name, batch, parsed_results>>

MaxDocs == 2   \* files in the input directory

\* files, with what a run on the file alone gives: whether it fails, the
\* four identity fields and the keys of the metrics that resolve
DocTable ==
    {[name |-> "AAPL_Q1_January_30_2024.txt", readable |-> TRUE,
      text |-> "Apple Inc. (NASDAQ:AAPL) Q3 2023 Earnings Call, November 2, 2023\nRevenue was $5 million.",
      fails |-> FALSE, ticker |-> Str("AAPL"), quarter |-> Str("Q3"), year |-> Str("2023"),
      earnings_date |-> Str("November 2, 2023"), keys |-> {"revenue"}],
     [name |-> "MSFT_Q2_Jan_30_2024.txt", readable |-> TRUE,
      text |-> "Net loss of $200 million.",
      fails |-> FALSE, ticker |-> Str("MSFT"), quarter |-> Str("Q2"), year |-> Str("2024"),
      earnings_date |-> Str("Jan 30 2024"), keys |-> {"net_income"}],
     [name |-> "TSLA_Q4_Jan_24_2024.txt", readable |-> TRUE,
      text |-> "Nothing to see here.",
      fails |-> FALSE, ticker |-> Str("TSLA"), quarter |-> Str("Q4"), year |-> Str("2024"),
      earnings_date |-> Str("Jan 24 2024"), keys |-> {}],
     [name |-> "NVDA_Q4_Feb_21_2024.txt", readable |-> TRUE,
      text |-> "Net revenue margin was 1.2.3%.",
      fails |-> TRUE, ticker |-> Str("NVDA"), quarter |-> Str("Q4"), year |-> Str("2024"),
      earnings_date |-> Str("Feb 21 2024"), keys |-> {}],
     [name |-> "AMZN_Q3_Oct_26_2023.txt", readable |-> FALSE,
      text |-> "",
      fails |-> TRUE, ticker |-> Str("AMZN"), quarter |-> Str("Q3"), year |-> Str("2023"),
      earnings_date |-> Str("Oct 26 2023"), keys |-> {}],
     [name |-> "GOOG.txt", readable |-> TRUE,
      text |-> "",
      fails |-> FALSE, ticker |-> Str("GOOG"), quarter |-> Unset, year |-> Unset,
      earnings_date |-> Unset, keys |-> {}]}

\* the files themselves
DocPool ==
    {[name |-> d.name, text |-> d.text, readable |-> d.readable] : d \in DocTable}

\* what a run on the file of this name alone gives
Alone(name) == CHOOSE d \in DocTable : d.name = name

\* the directory listings: files in any order, no file twice
RECURSIVE BatchesOf(_)
BatchesOf(n) ==
    IF n = 0 THEN {<<>>}
    ELSE {Append(b, d) : b \in BatchesOf(n - 1), d \in DocPool}

Batches ==
    {b \in UNION {BatchesOf(n) : n \in 0..MaxDocs} :
        \A i, j \in 1..Len(b) : b[i].name = b[j].name => i = j}

InitMain ==
    /\ batch \in Batches
    /\ parsed_results = <<>>
    /\ output = <<>>
    /\ pc = "loop"
    /\ text = ""
    /\ file_name = ""
    /\ num_str = ""
    /\ unit = ""
    /\ roundTiesUp = FALSE
    /\ results = <<>>
    /\ ret = None

SpecMain == InitMain /\ [][MainLoop \/ MainWrite]_vars

\* C17: when main's run over a batch has ended, the output holds a record
\* for every document of the batch that can be processed, whatever failed
\* on the other documents of the batch.
C17_RecordPerDocument ==
    pc \in {"done", "raised"}
    => \A i \in 1..Len(batch) :
           ~Alone(batch[i].name).fails
           => \E k \in 1..Len(output) : output[k].file_name = batch[i].name

-----------------------------------------------------------------------------
(* The matchers that are defined and the matchers extract_metrics runs *)

MarginSubjects == {"Net income margin", "Our net income margin", "Net revenue margin",
                   "Gross margin"}
MarginLinks    == {" of ", " was ", " increased five points to ", ", on a GAAP basis, was "}
MarginValues   == {"6.4%", "12%", "6.4 %", "6.4"}

InitMargin ==
    /\ text \in {subj \o link \o val \o "." :
                    subj \in MarginSubjects, link \in MarginLinks, val \in MarginValues}
    /\ num_str = ""
    /\ unit = ""
    /\ roundTiesUp = FALSE
    /\ pc = "call"
    /\ results = <<>>
    /\ ret = None
    /\ file_name = ""
    /\ NoBatch

SpecMargin == InitMargin /\ [][ExtractMetrics]_vars

\* C19: extract_metrics runs every matcher that is defined,
\* parse_net_income_margin among them: whenever a matcher resolves a value
\* on the text, the output holds that metric's key with that value.
C19_EveryMatcherRuns ==
    (pc = "done" /\ ~ret.raised)
    => /\ \A k \in MetricKeys :
            results[k] # None => (k \in DOMAIN ret.out /\ ret.out[k] = results[k])
       /\ parse_net_income_margin(text) # None
            => /\ "net_income_margin" \in DOMAIN ret.out
               /\ ret.out.net_income_margin = parse_net_income_margin(text)

-----------------------------------------------------------------------------
(* The year_over_year_mentions bucket *)

\* sentences as written, as they stand in the cleaned text, and whether the
\* cleaned sentence holds year, over, year with at most one hyphen or
\* whitespace character at each joint, in any case
YoySentences ==
    {[s |-> "Sales grew 5% year-over-year.", clean |-> "Sales grew 5% year-over-year.", has |-> TRUE],
     [s |-> "Sales grew year over year.", clean |-> "Sales grew year over year.", has |-> TRUE],
     [s |-> "YEAR-OVER-Year growth was strong.", clean |-> "YEAR-OVER-Year growth was strong.", has |-> TRUE],
     [s |-> "Margins rose yearoveryear.", clean |-> "Margins rose yearoveryear.", has |-> TRUE],
     [s |-> "Costs fell year\nover-year.", clean |-> "Costs fell year over-year.", has |-> TRUE],
     [s |-> "Costs fell year--over-year.", clean |-> "Costs fell year--over-year.", has |-> FALSE],
     [s |-> "Costs fell year - over - year.", clean |-> "Costs fell year - over - year.", has |-> FALSE],
     [s |-> "Growth year over the year held.", clean |-> "Growth year over the year held.", has |-> FALSE],
     [s |-> "A yearly overview follows.", clean |-> "A yearly overview follows.", has |-> FALSE],
     [s |-> "Nothing to see here.", clean |-> "Nothing to see here.", has |-> FALSE]}

\* one sentence, or two with a space between
YoySeqs ==
    {<<a>> : a \in YoySentences} \cup {<<a, b>> : a \in YoySentences, b \in YoySentences}

YoyText(ss) == IF Len(ss) = 1 THEN ss[1].s ELSE ss[1].s \o " " \o ss[2].s

\* the cleaned sentences of ss that hold the phrase, in order
YoyExpected(ss) ==
    LET kept == SelectSeq(ss, LAMBDA x : x.has)
    IN  [i \in 1..Len(kept) |-> kept[i].clean]

InitYoy ==
    /\ text \in {YoyText(ss) : ss \in YoySeqs}
    /\ num_str = ""
    /\ unit = ""
    /\ roundTiesUp = FALSE
    /\ pc = "call"
    /\ results = <<>>
    /\ ret = None
    /\ file_name = ""
    /\ NoBatch

SpecYoy == InitYoy /\ [][ExtractMetrics]_vars

\* C20: a sentence is in year_over_year_mentions exactly when it holds
\* 'year', 'over', 'year' with at most one hyphen or whitespace character
\* at each joint, in any case: "year-over-year" and "year over year" are in,
\* a sentence with neither is not.
C20_YearOverYearBucket ==
    (pc = "done" /\ ~ret.raised)
    => \A ss \in YoySeqs :
           text = YoyText(ss) => ret.out.year_over_year_mentions = YoyExpected(ss)

\* of two sentences, the one with "year-over-year" is in the bucket and the
\* other is not
C20_Witness ==
    /\ pc = "done"
    /\ text = "Sales grew 5% year-over-year. Nothing to see here."
    /\ ~ret.raised
    /\ ret.out.year_over_year_mentions = <<"Sales grew 5% year-over-year.">>

-----------------------------------------------------------------------------
(* The narrative buckets: order, repeats and several categories *)

MaxBucketSents == 3   \* sentences of a text to classify

\* sentences and the categories whose keyword or pattern each satisfies
BucketSentences ==
    {[s |-> "We expect strong demand and raised our guidance.",
      cats |-> {"forward_look", "demand_mentions", "guidance", "raising_mentions"}],
     [s |-> "Production fell compared to last year.",
      cats |-> {"production", "compared_to_mentions", "prior_year_mentions"}],
     [s |-> "The outlook for refinanced debt is challenging year-over-year.",
      cats |-> {"outlook", "challenge_mentions", "refinance_mentions",
                "year_over_year_mentions"}],
     [s |-> "Nothing to see here.",
      cats |-> {}]}

RECURSIVE BucketSeqsOf(_)
BucketSeqsOf(n) ==
    IF n = 0 THEN {<<>>}
    ELSE {Append(ss, x) : ss \in BucketSeqsOf(n - 1), x \in BucketSentences}

BucketSeqs == UNION {BucketSeqsOf(n) : n \in 1..MaxBucketSents}

RECURSIVE BucketText(_)
BucketText(ss) ==
    IF Len(ss) = 1 THEN ss[1].s ELSE ss[1].s \o " " \o BucketText(Tail(ss))

\* the sentences of ss that are of the category, in order, repeats kept
BucketExpected(ss, cat) ==
    LET kept == SelectSeq(ss, LAMBDA x : cat \in x.cats)
    IN  [i \in 1..Len(kept) |-> kept[i].s]

InitBuckets ==
    /\ text \in {BucketText(ss) : ss \in BucketSeqs}
    /\ num_str = ""
    /\ unit = ""
    /\ roundTiesUp = FALSE
    /\ pc = "call"
    /\ results = <<>>
    /\ ret = None
    /\ file_name = ""
    /\ NoBatch

SpecBuckets == InitBuckets /\ [][ExtractMetrics]_vars

\* C21: each narrative bucket is the subsequence, in document order, of the
\* sentences that satisfy that category's own test: a repeated sentence is
\* there as often as it stands in the text, no bucket is cut short, and a
\* sentence of several categories is in each of them.
C21_BucketsAreSubsequences ==
    (pc = "done" /\ ~ret.raised)
    => \A ss \in BucketSeqs :
           text = BucketText(ss)
           => \A cat \in NarrativeKeys : ret.out[cat] = BucketExpected(ss, cat)

\* a sentence of four categories stands twice around another one: it is
\* twice in the demand bucket and the other one is in no bucket
C21_Witness ==
    /\ pc = "done"
    /\ text = "We expect strong demand and raised our guidance. Nothing to see here. We expect strong demand and raised our guidance."
    /\ ~ret.raised
    /\ ret.out.demand_mentions = <<"We expect strong demand and raised our guidance.",
                                   "We expect strong demand and raised our guidance.">>
    /\ ret.out.guidance = ret.out.demand_mentions
    /\ ret.out.outlook = <<>>

-----------------------------------------------------------------------------
(* The sign of the metrics in millions *)

SignSubjects ==
    {"Revenue", "Total liquidity", "Available liquidity", "Total available liquidity",
     "Adjusted EBITDA", "Adjusted net income", "GAAP net income", "Interest expense",
     "Free cash flow", "Cash flow", "Orders", "Total orders", "Credit facility",
     "Net cash balance", "Total net sales", "GAAP operating income",
     "Consolidated net sales", "Consolidated operating income", "Marketplace GOV",
     "Share buybacks and dividends", "Lumber segment adjusted EBITDA"}

SignForms ==
    {" was -$5 million.", " was $-5 million.", " of negative $5 million.",
     " was a loss of $5 million.", " deficit of 5 million."}

\* the metrics in millions whose meaning carries no sign
MillionsKeys ==
    {"revenue", "liquidity", "available_liquidity", "total_available_liquidity",
     "adjusted_ebitda", "adjusted_net_income", "gaap_net_income", "interest_expense",
     "free_cash_flow", "cash_flow", "orders", "total_orders", "credit_facility",
     "net_cash_balance", "total_net_sales", "gaap_operating_income",
     "consolidated_net_sales", "consolidated_operating_income", "marketplace_gov",
     "share_buybacks_and_dividends", "lumber_segment_adjusted_ebitda"}

InitSign ==
    /\ text \in {subj \o form : subj \in SignSubjects, form \in SignForms}
    /\ num_str = ""
    /\ unit = ""
    /\ roundTiesUp = FALSE
    /\ pc = "call"
    /\ results = <<>>
    /\ ret = None
    /\ file_name = ""
    /\ NoBatch

SpecSign == InitSign /\ [][ExtractMetrics]_vars

\* C22: every metric in millions other than net_income that is in the
\* output is non-negative, whatever minus sign or loss word the text holds.
C22_MillionsNonNegative ==
    (pc = "done" /\ ~ret.raised)
    => \A k \in MillionsKeys \cap DOMAIN ret.out :
           ret.out[k].tag = "val" /\ ret.out[k].m >= 0

\* a metric has resolved from a phrase with 'negative'
C22_Witness ==
    /\ pc = "done"
    /\ text = "Consolidated net sales of negative $5 million."
    /\ ~ret.raised
    /\ "consolidated_net_sales" \in DOMAIN ret.out
    /\ ret.out.consolidated_net_sales = [tag |-> "val", m |-> 5, e |-> 0]

-----------------------------------------------------------------------------
(* adjusted net income with the number after the keyword *)

AdjPrefixes == {"", "Our "}
AdjLinks    == {" was ", " of ", " came in at ", " reached ", " "}
AdjTails    == {".", " today."}

\* amounts, whether they have a '$' or a unit, and their value in
\* thousandths of a million
AdjAmounts ==
    {[s |-> "$15,000,000", marked |-> TRUE, milli |-> 15000],
     [s |-> "$15 million", marked |-> TRUE, milli |-> 15000],
     [s |-> "15 million", marked |-> TRUE, milli |-> 15000],
     [s |-> "$0.015 billion", marked |-> TRUE, milli |-> 15000],
     [s |-> "$2,500,000", marked |-> TRUE, milli |-> 2500],
     [s |-> "15,000,000", marked |-> FALSE, milli |-> 0]}

AdjText(pre, link, amt, tail) == pre \o "adjusted net income" \o link \o amt.s \o tail

InitAdjusted ==
    /\ text \in {AdjText(pre, link, amt, tail) :
                    pre \in AdjPrefixes, link \in AdjLinks, amt \in AdjAmounts,
                    tail \in AdjTails}
    /\ num_str = ""
    /\ unit = ""
    /\ roundTiesUp = FALSE
    /\ pc = "call"
    /\ results = <<>>
    /\ ret = None
    /\ file_name = ""
    /\ NoBatch

SpecAdjusted == InitAdjusted /\ [][ExtractMetrics]_vars

\* C24: parse_adjusted_net_income takes a number that follows the keyword
\* when it has a '$' or a unit: "adjusted net income was $15,000,000" gives
\* 15.0.
C24_DollarWithoutUnit ==
    (pc = "done" /\ ~ret.raised)
    => \A pre \in AdjPrefixes, link \in AdjLinks, amt \in AdjAmounts, tail \in AdjTails :
           (text = AdjText(pre, link, amt, tail) /\ amt.marked)
           => /\ "adjusted_net_income" \in DOMAIN ret.out
              /\ Thousandths(ret.out.adjusted_net_income) = amt.milli

-----------------------------------------------------------------------------
(* parse_liquidity: the order of its stages *)

MaxLiqSents == 3   \* sentences of a text about liquidity

\* sentences, the stage of parse_liquidity each is written for (0: none),
\* and the amount in millions
LiqSentences ==
    {[s |-> "Total liquidity was $500 million.", stage |-> 1, amount |-> 500],
     [s |-> "We had $200 million of liquidity.", stage |-> 2, amount |-> 200],
     [s |-> "About $50 million in liquidity was added.", stage |-> 2, amount |-> 50],
     [s |-> "Liquidity stood at $300 million.", stage |-> 3, amount |-> 300],
     [s |-> "Nothing to see here.", stage |-> 0, amount |-> 0]}

RECURSIVE LiqSeqsOf(_)
LiqSeqsOf(n) ==
    IF n = 0 THEN {<<>>}
    ELSE {Append(ss, x) : ss \in LiqSeqsOf(n - 1), x \in LiqSentences}

\* texts of different sentences in any order
LiqSeqs ==
    {ss \in UNION {LiqSeqsOf(n) : n \in 1..MaxLiqSents} :
        \A i, j \in 1..Len(ss) : ss[i] = ss[j] => i = j}

RECURSIVE LiqText(_)
LiqText(ss) ==
    IF Len(ss) = 1 THEN ss[1].s ELSE ss[1].s \o " " \o LiqText(Tail(ss))

\* the amount of the first sentence of the lowest stage there is, 0 if none
LiqExpected(ss) ==
    LET staged == {i \in 1..Len(ss) : ss[i].stage # 0}
        best   == {i \in staged : \A j \in staged :
                       ss[i].stage < ss[j].stage \/ (ss[i].stage = ss[j].stage /\ i <= j)}
    IN  IF staged = {} THEN 0 ELSE ss[CHOOSE i \in best : TRUE].amount

\* texts whose only liquidity phrase is an increment introduced by 'by'
LiqByTexts ==
    {"liquidity increased by $50 million",
     "Our liquidity increased by $50 million this quarter.",
     "Liquidity rose by 1.5 billion."}

InitLiquidity ==
    /\ text \in {LiqText(ss) : ss \in LiqSeqs} \cup LiqByTexts
    /\ num_str = ""
    /\ unit = ""
    /\ roundTiesUp = FALSE
    /\ pc = "call"
    /\ results = <<>>
    /\ ret = None
    /\ file_name = ""
    /\ NoBatch

SpecLiquidity == InitLiquidity /\ [][ExtractMetrics]_vars

\* C26: parse_liquidity tries 'total liquidity <number> <unit>', then
\* '<number> <unit> ... liquidity', then 'liquidity ... <number> <unit>' and
\* returns the first stage that matches: with a 'total liquidity' phrase in
\* the text the value is that phrase's amount, whatever other liquidity
\* figure stands before or after it.
C26_LiquidityStageOrder ==
    (pc = "done" /\ ~ret.raised)
    => \A ss \in LiqSeqs :
           text = LiqText(ss)
           => IF LiqExpected(ss) = 0 THEN "liquidity" \notin DOMAIN ret.out
              ELSE /\ "liquidity" \in DOMAIN ret.out
                   /\ ret.out.liquidity = DecOfInt(LiqExpected(ss))

\* the 'total liquidity' amount has come back from between two other figures
C26_Witness ==
    /\ pc = "done"
    /\ text = "Liquidity stood at $300 million. Total liquidity was $500 million. We had $200 million of liquidity."
    /\ ~ret.raised
    /\ ret.out.liquidity = [tag |-> "val", m |-> 5, e |-> 2]

\* C27: the number-after-keyword stage of parse_liquidity never takes an
\* increment introduced by 'by': a text whose only liquidity phrase is
\* "liquidity increased by $50 million" has no liquidity metric.
C27_ByIncrementSkipped ==
    (pc = "done" /\ ~ret.raised /\ text \in LiqByTexts)
    => "liquidity" \notin DOMAIN ret.out

-----------------------------------------------------------------------------
(* A number followed by an ordinary word *)

\* keyword phrases of parse_revenue and of the parse_metric matchers, with
\* the key of the metric
UnitWordSubjects ==
    {[s |-> "revenue", key |-> "revenue"],
     [s |-> "consolidated net sales", key |-> "consolidated_net_sales"],
     [s |-> "consolidated operating income", key |-> "consolidated_operating_income"],
     [s |-> "marketplace gov", key |-> "marketplace_gov"],
     [s |-> "total orders", key |-> "total_orders"],
     [s |-> "gaap net income", key |-> "gaap_net_income"],
     [s |-> "available liquidity", key |-> "available_liquidity"]}

UnitWordLinks == {" of ", " was "}

\* ordinary words, none of which is a scale unit
OrdinaryWords ==
    {"basis points", "members", "bags", "kilos", "boxes", "items", "percent", "stores"}

UnitWordText(subj, link, w) == subj.s \o link \o "5 " \o w

InitUnitWord ==
    /\ text \in {UnitWordText(subj, link, w) :
                    subj \in UnitWordSubjects, link \in UnitWordLinks, w \in OrdinaryWords}
    /\ num_str = ""
    /\ unit = ""
    /\ roundTiesUp = FALSE
    /\ pc = "call"
    /\ results = <<>>
    /\ ret = None
    /\ file_name = ""
    /\ NoBatch

SpecUnitWord == InitUnitWord /\ [][ExtractMetrics]_vars

\* C28: a number followed by an ordinary word that merely begins with the
\* letter of a unit abbreviation is normalized as if it had no unit: the
\* metric of '<keyword> of 5 <word>' is 5.
C28_UnitIsWholeWord ==
    (pc = "done" /\ ~ret.raised)
    => \A subj \in UnitWordSubjects, link \in UnitWordLinks, w \in OrdinaryWords :
           text = UnitWordText(subj, link, w)
           => /\ subj.key \in DOMAIN ret.out
              /\ ret.out[subj.key] = DecOfInt(5)

-----------------------------------------------------------------------------
(* available liquidity and total available liquidity *)

\* amounts, two of them malformed literals
AvailAmounts == {"$12 billion", "$800 million", "1.2.3 million", "$1..5 billion"}

TotalAvailPhrases ==
    {"Total available liquidity of " \o a \o "." : a \in AvailAmounts}
    \cup {"Total available liquidity stood at " \o a \o "." : a \in AvailAmounts}
    \cup {a \o " of total available liquidity." : a \in AvailAmounts}

AvailPhrases ==
    {"$5 million of available liquidity.", "We had $5 million in available liquidity.",
     "Available liquidity was $5 million.", "9.9.9 million of available liquidity."}

AvailText(first, second) ==
    IF first = "" THEN second
    ELSE IF second = "" THEN first
    ELSE first \o " " \o second

InitAvailable ==
    /\ text \in {AvailText(first, second) :
                    first \in TotalAvailPhrases \cup {""},
                    second \in AvailPhrases \cup {""}}
    /\ num_str = ""
    /\ unit = ""
    /\ roundTiesUp = FALSE
    /\ pc = "call"
    /\ results = <<>>
    /\ ret = None
    /\ file_name = ""
    /\ NoBatch

SpecAvailable == InitAvailable /\ [][ExtractMetrics]_vars

\* C29: an output of extract_metrics that has the key available_liquidity
\* has the key total_available_liquidity too, malformed literals included.
C29_TotalWheneverAvailable ==
    (pc = "done" /\ ~ret.raised /\ "available_liquidity" \in DOMAIN ret.out)
    => "total_available_liquidity" \in DOMAIN ret.out

-----------------------------------------------------------------------------
(* The last-resort stage of parse_revenue *)

\* '$' literals with their amount in dollars
FallbackLiterals ==
    {[s |-> "$100,000", dollars |-> 100000],
     [s |-> "$999,999", dollars |-> 999999],
     [s |-> "$250,000", dollars |-> 250000],
     [s |-> "$50,000", dollars |-> 50000],
     [s |-> "$5,000,000", dollars |-> 5000000],
     [s |-> "$1000000", dollars |-> 1000000],
     [s |-> "$2,500,000", dollars |-> 2500000],
     [s |-> "$1,440,000,000", dollars |-> 1440000000]}

FallbackPrefixes == {"Our revenue grew.", "Revenue improved."}
FallbackLinks == {" We paid ", " Costs were ", " Fees: "}

\* texts with the keyword and no number near it
FallbackTextsOf(lit) ==
    {pre \o link \o lit.s \o " in fees." : pre \in FallbackPrefixes, link \in FallbackLinks}
    \cup {"We paid " \o lit.s \o " in fees. Revenue grew."}

InitFallback ==
    /\ text \in UNION {FallbackTextsOf(lit) : lit \in FallbackLiterals}
    /\ num_str = ""
    /\ unit = ""
    /\ roundTiesUp = FALSE
    /\ pc = "call"
    /\ results = <<>>
    /\ ret = None
    /\ file_name = ""
    /\ NoBatch

SpecFallback == InitFallback /\ [][ExtractMetrics]_vars

\* C30: a value returned by the last-resort stage of parse_revenue comes from
\* a '$' literal of at least 1,000,000 and is the literal divided by
\* 1,000,000; a '$' literal below one million is never returned.
C30_FallbackAtLeastMillion ==
    (pc = "done" /\ ~ret.raised)
    => \A lit \in FallbackLiterals :
           text \in FallbackTextsOf(lit)
           => IF lit.dollars >= 1000000
              THEN /\ "revenue" \in DOMAIN ret.out
                   /\ Thousandths(ret.out.revenue) * 1000 = lit.dollars
              ELSE "revenue" \notin DOMAIN ret.out

====
